---------------------------- MODULE Spec2Model ----------------------------
(***************************************************************************)
(* A model of faxanatools: the ROM reader (decoder.py), the JSON           *)
(* serializer and deserializer, and the ROM patcher (encoder.py).          *)
(*                                                                         *)
(* Bytes are integers 0..255.  Python strings and names (script, label,    *)
(* shop and message names) are sequences of code points, so that they can  *)
(* be compared, concatenated and sorted as the code does.  A ROM file is   *)
(* a record [header, body]; the body is a function from PRG ROM offsets    *)
(* to bytes, defined on the offsets the model looks at.                    *)
(***************************************************************************)
EXTENDS Integers, Sequences, FiniteSets, TLC

(***************************************************************************)
(* Bounds of the model.                                                    *)
(***************************************************************************)
\* Number of entrypoint slots the ROM information is configured with.
MaxIScriptAddrs == 2
\* Length configured for the scripts/shops region.
MaxIScriptsLen == 10
\* Length configured for the message region.
MaxMessagesLen == 4
\* Largest region-relative address a jump or shop operand of an input
\* image may hold.
MaxTarget == 7
\* Number of pieces a byte run of the message codec is put together from.
MaxPieces == 2
\* Largest offset of the image the address helpers are applied to: the
\* last byte of a PRG ROM of 256 KB.
MaxRomAddr == 262143
\* The most messages a collection handed to the encoder holds.
MaxMessages == 256
\* How far an offset or a slot count the caller gives lies from its
\* default.
MaxShift == 2

(***************************************************************************)
(* Generic helpers.                                                        *)
(***************************************************************************)
None == -1

EmptyMap == [x \in {} |-> 0]

Put(f, k, v) == [x \in (DOMAIN f) \cup {k} |-> IF x = k THEN v ELSE f[x]]

Min(a, b) == IF a < b THEN a ELSE b

RECURSIVE Concat(_)
Concat(ss) == IF ss = <<>> THEN <<>> ELSE Head(ss) \o Concat(Tail(ss))

RECURSIVE SumSeq(_)
SumSeq(s) == IF s = <<>> THEN 0 ELSE Head(s) + SumSeq(Tail(s))

Zeros(n) == [i \in 1..n |-> 0]

\* Lexicographic order on strings (sequences of code points), as Python
\* compares str values.
RECURSIVE StrLess(_, _)
StrLess(a, b) ==
    IF b = <<>> THEN FALSE
    ELSE IF a = <<>> THEN TRUE
    ELSE IF Head(a) # Head(b) THEN Head(a) < Head(b)
    ELSE StrLess(Tail(a), Tail(b))

StartsWith(s, p) == Len(s) >= Len(p) /\ SubSeq(s, 1, Len(p)) = p

\* bytes.replace(old, new): left to right, non-overlapping.
RECURSIVE Replace(_, _, _)
Replace(s, old, new) ==
    IF s = <<>> THEN <<>>
    ELSE IF StartsWith(s, old)
         THEN new \o Replace(SubSeq(s, Len(old) + 1, Len(s)), old, new)
         ELSE <<Head(s)>> \o Replace(Tail(s), old, new)

\* hex(n) without the "0x" prefix.
HexDigit(d) == IF d < 10 THEN 48 + d ELSE 87 + d

RECURSIVE HexDigits(_)
HexDigits(n) ==
    IF n < 16 THEN <<HexDigit(n)>>
    ELSE HexDigits(n \div 16) \o <<HexDigit(n % 16)>>

\* Python's hex(n): "0x" and the lower-case digits.
Hex(n) == <<48, 120>> \o HexDigits(n)

\* f'msg-{n:02x}'
MsgId(n) == <<109, 115, 103, 45>> \o
            (IF n < 16 THEN <<48>> ELSE <<>>) \o HexDigits(n)

(***************************************************************************)
(* rom.py: FaxanaduROM, the ROM information and the address helpers.       *)
(***************************************************************************)
HeaderLen == 16

messages_offset == 213760

DefaultMaxIScriptAddrs == 152

max_iscript_addrs == MaxIScriptAddrs

iscript_addrs_offset == 204651

\* The field's default is computed once, from the default slot count.
iscripts_offset == iscript_addrs_offset + DefaultMaxIScriptAddrs * 2

max_iscripts_len == MaxIScriptsLen

\* 0xA6C8 - 0xA09A
DefaultMaxIScriptsLen == 1582

max_messages_len == MaxMessagesLen

\* The number of the 16 KB bank an offset lies in.
get_bank_for_16k(rom_addr) == rom_addr \div 16384

\* (rom_addr & 0xFF0000) // 0x4000
get_bank_for(rom_addr) == (((rom_addr \div 65536) % 256) * 65536) \div 16384

\* (rom_addr & 0xFFFF) + 0x8000
get_bank_addr_for(rom_addr) == (rom_addr % 65536) + 32768

\* (bank * 0x4000) + addr - 0x8000
get_rom_offset_for(bank, addr) == (bank * 16384) + addr - 32768

(***************************************************************************)
(* rom.py: ROMIO.  A read yields [ok, value, pos]; ok is FALSE when the    *)
(* read leaves the offsets the model defines.                              *)
(***************************************************************************)
InModel(body, pos, size) == \A i \in 0..(size - 1) : (pos + i) \in DOMAIN body

\* value |= byte << (8 * i), first byte least significant.
RECURSIVE read_value_at(_, _, _)
read_value_at(body, pos, size) ==
    IF size = 0 THEN 0
    ELSE body[pos] + 256 * read_value_at(body, pos + 1, size - 1)

\* ((value >> (i * 8)) & 0xFF) for i in range(size)
write_value(value, size) == [i \in 1..size |-> (value \div (256 ^ (i - 1))) % 256]

\* BytesIO.write at pos: overwrites, and extends the buffer where needed.
WriteAt(buf, pos, bytes) ==
    [o \in (DOMAIN buf) \cup (pos..(pos + Len(bytes) - 1)) |->
        IF o >= pos /\ o < pos + Len(bytes) THEN bytes[o - pos + 1] ELSE buf[o]]


(***************************************************************************)
(* iscripts.py: the action table and the default entrypoint names.         *)
(***************************************************************************)
ParamInfo(n, s, t) == [name |-> n, size |-> s, type |-> t]

ActionInfo(id, n, ps, e) == [action_id |-> id, name |-> n, params |-> ps, ends |-> e]

ActionList == <<
    ActionInfo(0, "end", <<>>, TRUE),
    ActionInfo(1, "show-message", <<ParamInfo("message_id", 1, "MESSAGE")>>, FALSE),
    ActionInfo(2, "show-dismissible-message", <<ParamInfo("message_id", 1, "MESSAGE")>>, FALSE),
    ActionInfo(3, "show-message-2", <<ParamInfo("message_id", 1, "MESSAGE")>>, FALSE),
    ActionInfo(4, "if-update-player-title", <<ParamInfo("then-jump", 2, "SCRIPT_JUMP_ADDR")>>, FALSE),
    ActionInfo(5, "pay-gold", <<ParamInfo("amount", 2, "VALUE")>>, FALSE),
    ActionInfo(6, "set-spawn-point", <<ParamInfo("temple-id", 1, "VALUE")>>, FALSE),
    ActionInfo(7, "add-player-item", <<ParamInfo("item-id", 1, "VALUE")>>, FALSE),
    ActionInfo(8, "open-shop", <<ParamInfo("items", 2, "SHOP_ADDR")>>, FALSE),
    ActionInfo(9, "add-gold", <<ParamInfo("amount", 2, "VALUE")>>, FALSE),
    ActionInfo(10, "add-mp", <<ParamInfo("amount", 1, "VALUE")>>, FALSE),
    ActionInfo(11, "if-quest", <<ParamInfo("quest", 1, "VALUE"), ParamInfo("then-jump", 2, "SCRIPT_JUMP_ADDR")>>, FALSE),
    ActionInfo(12, "if-player-rank", <<ParamInfo("rank", 1, "VALUE"), ParamInfo("then-jump", 2, "SCRIPT_JUMP_ADDR")>>, FALSE),
    ActionInfo(13, "if-has-gold", <<ParamInfo("then-jump", 2, "SCRIPT_JUMP_ADDR")>>, FALSE),
    ActionInfo(14, "set-quest-complete", <<ParamInfo("quest", 1, "VALUE")>>, FALSE),
    ActionInfo(15, "show-buy-sell-menu", <<ParamInfo("if-buy-then-jump", 2, "SCRIPT_JUMP_ADDR")>>, FALSE),
    ActionInfo(16, "take-item", <<ParamInfo("item-id", 1, "VALUE")>>, FALSE),
    ActionInfo(17, "show-sell-menu", <<ParamInfo("sellable-items", 2, "SHOP_ADDR")>>, FALSE),
    ActionInfo(18, "if-has-item", <<ParamInfo("item-id", 1, "VALUE"), ParamInfo("then-jump", 2, "SCRIPT_JUMP_ADDR")>>, FALSE),
    ActionInfo(19, "add-hp", <<ParamInfo("amount", 1, "VALUE")>>, FALSE),
    ActionInfo(20, "show-password", <<>>, FALSE),
    ActionInfo(21, "end-game", <<>>, FALSE),
    ActionInfo(23, "jump", <<ParamInfo("addr", 2, "SCRIPT_JUMP_ADDR")>>, TRUE)
>>

ActionIds == {ActionList[i].action_id : i \in DOMAIN ActionList}

ACTION_TYPES == [id \in ActionIds |->
    CHOOSE a \in {ActionList[i] : i \in DOMAIN ActionList} : a.action_id = id]

ActionNames == {ActionList[i].name : i \in DOMAIN ActionList}

ACTION_TYPES_BY_NAME == [n \in ActionNames |->
    CHOOSE a \in {ActionList[i] : i \in DOMAIN ActionList} : a.name = n]

\* The first names of DEFAULT_ISCRIPT_ORDER, up to the first position that
\* holds a name for the second time ("intro-exposition" at positions 1 and
\* 31): "intro-exposition", "eolis-first-walking-man", "mark-of-jack",
\* "a0b1", "eolis-guru", "a0c9", ...
DEFAULT_ISCRIPT_ORDER == <<
    <<105, 110, 116, 114, 111, 45, 101, 120, 112, 111, 115, 105, 116, 105,
      111, 110>>,
    <<101, 111, 108, 105, 115, 45, 102, 105, 114, 115, 116, 45, 119, 97, 108,
      107, 105, 110, 103, 45, 109, 97, 110>>,
    <<109, 97, 114, 107, 45, 111, 102, 45, 106, 97, 99, 107>>,
    <<97, 48, 98, 49>>,
    <<101, 111, 108, 105, 115, 45, 103, 117, 114, 117>>,
    <<97, 48, 99, 57>>,
    <<101, 111, 108, 105, 115, 45, 115, 109, 111, 107, 105, 110, 103, 45,
      109, 97, 110>>,
    <<101, 111, 108, 105, 115, 45, 107, 105, 110, 103, 115, 45, 103, 117, 97,
      114, 100>>,
    <<101, 111, 108, 105, 115, 45, 107, 105, 110, 103>>,
    <<97, 48, 101, 101>>,
    <<97, 48, 102, 56>>,
    <<101, 111, 108, 105, 115, 45, 109, 101, 97, 116, 45, 115, 104, 111, 112>>,
    <<101, 111, 108, 105, 115, 45, 107, 101, 121, 45, 115, 104, 111, 112>>,
    <<101, 111, 108, 105, 115, 45, 116, 111, 111, 108, 45, 115, 104, 111, 112>>,
    <<101, 111, 108, 105, 115, 45, 109, 97, 103, 105, 99, 45, 115, 104, 111,
      112>>,
    <<101, 111, 108, 105, 115, 45, 109, 97, 114, 116, 105, 97, 108, 45, 97,
      114, 116, 115>>,
    <<97, 49, 48, 98>>,
    <<97, 49, 49, 54>>,
    <<97, 49, 50, 49>>,
    <<97, 49, 50, 99>>,
    <<97, 49, 51, 55>>,
    <<97, 112, 111, 108, 117, 110, 101, 45, 100, 111, 99, 116, 111, 114>>,
    <<97, 49, 51, 98>>,
    <<97, 49, 52, 54>>,
    <<97, 49, 53, 49>>,
    <<97, 112, 111, 108, 117, 110, 101, 45, 116, 111, 111, 108, 45, 115, 104,
      111, 112>>,
    <<97, 112, 111, 108, 117, 110, 101, 45, 107, 101, 121, 45, 115, 104, 111,
      112>>,
    <<97, 49, 53, 53>>,
    <<97, 112, 111, 108, 117, 110, 101, 45, 103, 117, 114, 117>>,
    <<98, 101, 102, 111, 114, 101, 45, 97, 112, 111, 108, 117, 110, 101, 45,
      116, 111, 111, 108, 45, 115, 104, 111, 112>>,
    <<105, 110, 116, 114, 111, 45, 101, 120, 112, 111, 115, 105, 116, 105,
      111, 110>>
>>

(***************************************************************************)
(* messages.py: Messages.  The collection is the sequence of its messages  *)
(* in index order (index i is position i); _indexes_by_id maps a name to   *)
(* the index it was last added under.                                      *)
(***************************************************************************)
Message(id, str) == [message_id |-> id, string |-> str]

HasMessageId(messages, id) == \E i \in DOMAIN messages : messages[i].message_id = id

get_index_for_id(messages, id) ==
    CHOOSE i \in DOMAIN messages :
        /\ messages[i].message_id = id
        /\ \A j \in DOMAIN messages : messages[j].message_id = id => j <= i

\* The two assertions of get_by_index.
ValidMessageIndex(messages, index) == index > 0 /\ index < Len(messages) + 1

(***************************************************************************)
(* decoder.py: ROMDecoder.                                                 *)
(***************************************************************************)
TitleStr == <<60, 60, 60, 84, 73, 84, 76, 69, 62, 62, 62>>

PauseStr == <<60, 60, 60, 80, 65, 85, 83, 69, 62, 62, 62>>

\* MESSAGE_SPECIAL_CHARS.get(c, c)
DecodeChar(c) ==
    CASE c = 251 -> TitleStr
      [] c = 252 -> PauseStr
      [] c = 253 -> <<32>>
      [] c = 254 -> <<10>>
      [] OTHER -> <<c>>

\* (upper << 8 | lower) & 0xFFFF
build_addr(upper, lower) == (upper * 256 + lower) % 65536

\* The inner loop of decode_messages: the bytes up to the next 0xFF.
RECURSIVE ReadRun(_, _)
ReadRun(body, pos) ==
    IF pos \notin DOMAIN body THEN [ok |-> FALSE, buf |-> <<>>, pos |-> pos]
    ELSE IF body[pos] = 255 THEN [ok |-> TRUE, buf |-> <<>>, pos |-> pos + 1]
    ELSE LET r == ReadRun(body, pos + 1)
         IN  [ok |-> r.ok, buf |-> <<body[pos]>> \o r.buf, pos |-> r.pos]

\* bytes.decode('ascii') accepts the bytes below 0x80 only.
IsAscii(s) == \A i \in DOMAIN s : s[i] < 128

DecodeRun(buf) == Concat([i \in DOMAIN buf |-> DecodeChar(buf[i])])

RECURSIVE decode_messages_from(_, _, _)
decode_messages_from(body, pos, messages) ==
    IF pos \notin DOMAIN body
    THEN [status |-> "off_model", messages |-> messages]
    ELSE IF body[pos] = 0
    THEN [status |-> "ok", messages |-> messages]
    ELSE LET r == ReadRun(body, pos)
             str == DecodeRun(r.buf)
         IN  IF ~r.ok THEN [status |-> "off_model", messages |-> messages]
             ELSE IF ~IsAscii(str)
             THEN [status |-> "UnicodeDecodeError", messages |-> messages]
             ELSE decode_messages_from(body, r.pos,
                      Append(messages, Message(MsgId(Len(messages) + 1), str)))

decode_messages(body, pos) == decode_messages_from(body, pos, <<>>)

iter_decode_iscript_addrs(body, pos, num_scripts) ==
    [i \in 1..num_scripts |->
        build_addr(body[pos + num_scripts + i - 1], body[pos + i - 1])]

\* read_shop: (item, price) pairs up to the 0xFF byte.
RECURSIVE read_shop_items(_, _)
read_shop_items(body, pos) ==
    IF pos \notin DOMAIN body THEN [ok |-> FALSE, items |-> <<>>]
    ELSE IF body[pos] = 255 THEN [ok |-> TRUE, items |-> <<>>]
    ELSE IF ~InModel(body, pos + 1, 2) THEN [ok |-> FALSE, items |-> <<>>]
    ELSE LET r == read_shop_items(body, pos + 3)
         IN  [ok |-> r.ok,
              items |-> <<[item |-> body[pos],
                           price |-> read_value_at(body, pos + 1, 2)]>> \o r.items]

(***************************************************************************)
(* encoder.py: ROMEncoder.encode_messages.                                 *)
(***************************************************************************)
\* str.encode('ascii'), then the four replacements in dictionary order.
EncodeString(str) ==
    Replace(Replace(Replace(Replace(str, TitleStr, <<251>>), PauseStr, <<252>>),
                    <<32>>, <<253>>), <<10>>, <<254>>)

encode_messages(messages) ==
    Concat([i \in DOMAIN messages |-> EncodeString(messages[i].string) \o <<255>>])

CanEncodeMessages(messages) == \A i \in DOMAIN messages : IsAscii(messages[i].string)


(***************************************************************************)
(* iscripts.py, shops.py: the entities of the graph.  A script or a label  *)
(* is an object: scripts are identified by their position in the heap of   *)
(* created scripts, a label by its script and its position in the code.    *)
(* A parameter value is tagged with its Python type: "int", "msg" (a       *)
(* Message, by its message_id), "ref" (an IScriptTargetRef: script n,      *)
(* label l or 0 for None), "shop" (a ShopRef) or "name" (a str).           *)
(***************************************************************************)
IScript(name, entity) == [name |-> name, entity |-> entity, code |-> <<>>, ref_count |-> 0]

IScriptLabel(name) ==
    [kind |-> "label", name |-> name, ref_count |-> 0, action_id |-> None, params |-> <<>>]

IScriptAction(action_id, params) ==
    [kind |-> "action", name |-> <<>>, ref_count |-> 0, action_id |-> action_id,
     params |-> params]

IntVal(n) == [tag |-> "int", n |-> n, l |-> 0, s |-> <<>>]

MsgVal(id) == [tag |-> "msg", n |-> 0, l |-> 0, s |-> id]

NameVal(s) == [tag |-> "name", n |-> 0, l |-> 0, s |-> s]

ShopRef(name) == [tag |-> "shop", n |-> 0, l |-> 0, s |-> name]

IScriptTargetRef(iscript, label) == [tag |-> "ref", n |-> iscript, l |-> label, s |-> <<>>]

\* IScriptTargetRef.target.name: the label if there is one, else the script.
TargetName(h, ref) ==
    IF ref.l # 0 THEN h[ref.n].code[ref.l].name ELSE h[ref.n].name

\* A reference that counts itself on its script, whatever its target.
CountRefOnIScript(h, ref) == [h EXCEPT ![ref.n].ref_count = @ + 1]

\* IScriptTargetRef.__post_init__: the target's ref_count goes up by one.
CountRef(h, ref) ==
    IF ref.l # 0
    THEN [h EXCEPT ![ref.n].code[ref.l].ref_count = @ + 1]
    ELSE [h EXCEPT ![ref.n].ref_count = @ + 1]

\* A resolution that leaves the parameter holding what it held.
KeepRawTarget(h, sid, p, tgt) == h

\* param.value = IScriptTargetRef(iscript=..., label=...)
SetTargetRef(h, sid, p, tgt) ==
    CountRef([h EXCEPT ![sid].code[p[1]].params[p[2]] =
                  IScriptTargetRef(tgt.iscript, tgt.label)],
             IScriptTargetRef(tgt.iscript, tgt.label))

\* rom.shops[name] = shop, on a dict that keeps insertion order.
PutShop(shops, name, items) ==
    IF \E i \in DOMAIN shops : shops[i].name = name
    THEN [i \in DOMAIN shops |->
             IF shops[i].name = name THEN [name |-> name, items |-> items] ELSE shops[i]]
    ELSE Append(shops, [name |-> name, items |-> items])

HasShop(shops, name) == \E i \in DOMAIN shops : shops[i].name = name

NoErr == [kind |-> "none", info |-> <<>>]

Err(kind, info) == [kind |-> kind, info |-> info]

(***************************************************************************)
(* The input images.  The scripts region holds one of a few programs with  *)
(* a free operand t; the entrypoint table holds any combination of the     *)
(* EntryTargets; the message table is one of MsgTables.  The bytes next to *)
(* the regions hold 0xEE, a value no region is ever filled with.           *)
(***************************************************************************)
Marker == 238

RegionBase == get_bank_addr_for(iscripts_offset)

\* The two operand bytes of the region-relative address r.
Addr(r) == write_value(RegionBase + r, 2)

Targets == 0..MaxTarget

EntryTargets == {0, 4, 5}

Programs(t) == {
    \* entity, if-has-gold t, end; entity, end
    <<128, 13>> \o Addr(t) \o <<0, 128, 0>>,
    \* entity, jump t; end; entity, end
    <<128, 23>> \o Addr(t) \o <<0, 128, 0>>,
    \* entity, open-shop t, end; entity, end; an empty shop
    <<128, 8>> \o Addr(t) \o <<0, 128, 0, 255>>,
    \* entity, open-shop t, end; a shop of one item
    <<128, 8>> \o Addr(t) \o <<0, 7, 16, 0, 255>>,
    \* entity, show-message t, show-password, end; entity, end
    <<128, 1, t, 20, 0, 128, 0>>,
    \* entity, show-message 1, show-password, end; entity, jump t
    <<128, 1, 1, 20, 0, 128, 23>> \o Addr(t),
    \* entity, jump 4; jump t
    <<128, 23>> \o Addr(4) \o <<23>> \o Addr(t),
    \* entity, if-has-gold t, jump 8, end, end
    <<128, 13>> \o Addr(t) \o <<23>> \o Addr(8) \o <<0, 0>>,
    \* entity, open-shop 8, show-sell-menu 8, end; an empty shop
    <<128, 8>> \o Addr(8) \o <<17>> \o Addr(8) \o <<0, 255>>,
    \* entity, jump t; end, end
    <<128, 23>> \o Addr(t) \o <<0, 0>>
}

MsgTables == { <<65, 255>>, <<65, 255, 66, 255>> }

Header == [i \in 1..HeaderLen |-> i]

PadTo(bytes, n) == IF Len(bytes) >= n THEN bytes ELSE bytes \o Zeros(n - Len(bytes))

Image(table, program, msgs) ==
    LET tb  == [i \in 1..max_iscript_addrs |-> Addr(table[i])[1]] \o
               [i \in 1..max_iscript_addrs |-> Addr(table[i])[2]]
        reg == PadTo(program, max_iscripts_len)
        msg == PadTo(msgs, max_messages_len + 1)
        tbl == iscript_addrs_offset..(iscript_addrs_offset + Len(tb) - 1)
        rgn == iscripts_offset..(iscripts_offset + Len(reg) - 1)
        mss == messages_offset..(messages_offset + Len(msg) - 1)
        edge == {iscript_addrs_offset - 1, iscript_addrs_offset + Len(tb),
                 iscripts_offset - 1, iscripts_offset + Len(reg),
                 messages_offset - 1, messages_offset + Len(msg)}
    IN  [o \in tbl \cup rgn \cup mss \cup edge |->
            IF o \in tbl THEN tb[o - iscript_addrs_offset + 1]
            ELSE IF o \in rgn THEN reg[o - iscripts_offset + 1]
            ELSE IF o \in mss THEN msg[o - messages_offset + 1]
            ELSE Marker]

Files ==
    { [header |-> Header, body |-> Image(table, program, msgs)] :
        table \in [1..max_iscript_addrs -> EntryTargets],
        program \in UNION {Programs(t) : t \in Targets},
        msgs \in MsgTables }

(***************************************************************************)
(* encoder.py: ROMEncoder and ROMPatcher, as functions of the graph.  The  *)
(* graph is a record [messages, heap, coll, entrypoints, shops].           *)
(***************************************************************************)
Graph(m, h, c, e, s) ==
    [messages |-> m, heap |-> h, coll |-> c, entrypoints |-> e, shops |-> s]

NoGraph == Graph(<<>>, <<>>, <<>>, <<>>, <<>>)

\* encode_iscript_action, for the parameters from k on.  acc holds the
\* bytes written since the region's start and the two tables of pending
\* references, keyed by file position.
RECURSIVE EncodeParams(_, _, _, _, _)
EncodeParams(g, start, action, k, acc) ==
    IF k > Len(action.params) \/ acc.err # NoErr THEN acc
    ELSE LET info == ACTION_TYPES[action.action_id].params[k]
             v == action.params[k]
             tell == start + Len(acc.bytes)
         IN  CASE info.type = "SCRIPT_JUMP_ADDR" ->
                    IF v.tag # "ref"
                    THEN [acc EXCEPT !.err = Err("AssertionError", <<>>)]
                    ELSE EncodeParams(g, start, action, k + 1,
                            [acc EXCEPT
                                !.iscript_refs = Put(@, tell, TargetName(g.heap, v)),
                                !.bytes = @ \o write_value(65535, info.size)])
               [] info.type = "SHOP_ADDR" ->
                    IF v.tag # "shop"
                    THEN [acc EXCEPT !.err = Err("AssertionError", <<>>)]
                    ELSE EncodeParams(g, start, action, k + 1,
                            [acc EXCEPT
                                !.shop_refs = Put(@, tell, v.s),
                                !.bytes = @ \o write_value(65535, info.size)])
               [] info.type = "MESSAGE" ->
                    IF v.tag # "msg"
                    THEN [acc EXCEPT !.err = Err("AssertionError", <<>>)]
                    ELSE IF ~HasMessageId(g.messages, v.s)
                    THEN [acc EXCEPT !.err = Err("KeyError", <<>>)]
                    ELSE EncodeParams(g, start, action, k + 1,
                            [acc EXCEPT !.bytes = @ \o
                                write_value(get_index_for_id(g.messages, v.s), info.size)])
               [] OTHER ->
                    IF v.tag # "int"
                    THEN [acc EXCEPT !.err = Err("TypeError", <<>>)]
                    ELSE EncodeParams(g, start, action, k + 1,
                            [acc EXCEPT !.bytes = @ \o write_value(v.n, info.size)])

encode_iscript_action(g, start, action, acc) ==
    EncodeParams(g, start, action, 1,
                 [acc EXCEPT !.bytes = @ \o write_value(action.action_id, 1)])

\* The offset encode_iscript records for a label: cur_addr, which is set
\* on entry and never again.
LabelOffset(cur_addr, tell) == cur_addr

\* The loop of encode_iscript over the segments from i on.
RECURSIVE EncodeSegments(_, _, _, _, _, _)
EncodeSegments(g, start, iscript, cur_addr, i, acc) ==
    IF i > Len(iscript.code) \/ acc.err # NoErr THEN acc
    ELSE LET segment == iscript.code[i]
         IN  IF segment.kind = "label"
             THEN EncodeSegments(g, start, iscript, cur_addr, i + 1,
                      [acc EXCEPT !.iscript_rom_offsets =
                          Put(@, segment.name,
                              LabelOffset(cur_addr, start + Len(acc.bytes)))])
             ELSE EncodeSegments(g, start, iscript, cur_addr, i + 1,
                      encode_iscript_action(g, start, segment, acc))

encode_iscript(g, start, iscript, acc) ==
    LET cur_addr == start + Len(acc.bytes)
        acc1 == [acc EXCEPT !.iscript_rom_offsets = Put(@, iscript.name, cur_addr)]
        acc2 == IF iscript.entity # None
                THEN [acc1 EXCEPT !.bytes = @ \o write_value(iscript.entity, 1)]
                ELSE acc1
    IN  EncodeSegments(g, start, iscript, cur_addr, 1, acc2)

encode_shop(shop) ==
    Concat([i \in DOMAIN shop.items |->
               write_value(shop.items[i].item, 1) \o write_value(shop.items[i].price, 2)])
    \o <<255>>

\* sorted(rom.shops.values(), key=lambda shop: shop.name)
RECURSIVE SortShops(_)
SortShops(ss) ==
    IF ss = <<>> THEN <<>>
    ELSE LET m == CHOOSE i \in DOMAIN ss :
                      \A j \in DOMAIN ss :
                          /\ ~StrLess(ss[j].name, ss[i].name)
                          /\ (ss[j].name = ss[i].name => i <= j)
         IN  <<ss[m]>> \o SortShops([k \in 1..(Len(ss) - 1) |->
                                        IF k < m THEN ss[k] ELSE ss[k + 1]])

\* Whether a script is announced in the entrypoint table: membership of
\* its name in entrypoints_set.
IsEntrypoint(g, iscript) == \E i \in DOMAIN g.entrypoints : g.entrypoints[i] = iscript.name

\* The first loop of _patch_iscripts: the scripts, in collection order.
RECURSIVE LayoutIScripts(_, _, _, _)
LayoutIScripts(g, start, i, acc) ==
    IF i > Len(g.coll) \/ acc.err # NoErr THEN acc
    ELSE LET iscript == g.heap[g.coll[i]]
             iscript_start_addr == start + Len(acc.bytes)
             acc1 == IF IsEntrypoint(g, iscript)
                     THEN [acc EXCEPT !.entrypoint_iscript_rom_offsets =
                              Append(@, get_bank_addr_for(iscript_start_addr))]
                     ELSE acc
             acc2 == encode_iscript(g, start, iscript, acc1)
         IN  LayoutIScripts(g, start, i + 1,
                 [acc2 EXCEPT !.total_bytes =
                     @ + (start + Len(acc2.bytes)) - iscript_start_addr])

\* The second loop of _patch_iscripts: the shops, sorted by name.
RECURSIVE LayoutShops(_, _, _, _)
LayoutShops(sorted, start, i, acc) ==
    IF i > Len(sorted) \/ acc.err # NoErr THEN acc
    ELSE LET shop_start_addr == start + Len(acc.bytes)
             bytes == encode_shop(sorted[i])
         IN  LayoutShops(sorted, start, i + 1,
                 [acc EXCEPT !.shop_rom_offsets = Put(@, sorted[i].name, shop_start_addr),
                             !.bytes = @ \o bytes,
                             !.total_bytes = @ + Len(bytes)])

NoLayout ==
    [bytes |-> <<>>, iscript_refs |-> EmptyMap, shop_refs |-> EmptyMap,
     iscript_rom_offsets |-> EmptyMap, shop_rom_offsets |-> EmptyMap,
     entrypoint_iscript_rom_offsets |-> <<>>, total_bytes |-> 0, err |-> NoErr]

\* _patch_iscripts up to the limit check: what was written and recorded.
Layout(g) ==
    LayoutShops(SortShops(g.shops), iscripts_offset, 1,
                LayoutIScripts(g, iscripts_offset, 1, NoLayout))

\* The limit checks of the three steps.
MessagesTooLargeAtLimit(data_len) == data_len >= max_messages_len

MessagesTooLarge(data_len) == data_len > max_messages_len

IScriptsTooLarge(total_bytes) == total_bytes > max_iscripts_len

TooManyEntrypoints(num_entrypoints) == num_entrypoints > max_iscript_addrs

\* _patch_messages: [err, buf].
patch_messages(g, buf) ==
    IF ~CanEncodeMessages(g.messages)
    THEN [err |-> Err("UnicodeEncodeError", <<>>), buf |-> buf]
    ELSE LET data == encode_messages(g.messages)
         IN  [err |-> IF MessagesTooLarge(Len(data))
                      THEN Err("ROMPatchError", <<max_messages_len, Len(data)>>)
                      ELSE NoErr,
              buf |-> WriteAt(buf, messages_offset, data)]

\* A layout that pads with one zero byte too many.
patch_layout_long_padding(g, buf) ==
    LET lay == Layout(g)
        buf1 == WriteAt(buf, iscripts_offset, lay.bytes)
    IN  IF lay.err # NoErr THEN [err |-> lay.err, buf |-> buf1, lay |-> lay]
        ELSE IF IScriptsTooLarge(lay.total_bytes)
        THEN [err |-> Err("ROMPatchError", <<max_iscripts_len, lay.total_bytes>>),
              buf |-> buf1, lay |-> lay]
        ELSE [err |-> NoErr,
              buf |-> WriteAt(buf1, iscripts_offset + Len(lay.bytes),
                              Zeros(max_iscripts_len - lay.total_bytes + 1)),
              lay |-> lay]

\* A layout that leaves the rest of the region as it was.
patch_layout_no_padding(g, buf) ==
    LET lay == Layout(g)
        buf1 == WriteAt(buf, iscripts_offset, lay.bytes)
    IN  IF lay.err # NoErr THEN [err |-> lay.err, buf |-> buf1, lay |-> lay]
        ELSE IF IScriptsTooLarge(lay.total_bytes)
        THEN [err |-> Err("ROMPatchError", <<max_iscripts_len, lay.total_bytes>>),
              buf |-> buf1, lay |-> lay]
        ELSE [err |-> NoErr, buf |-> buf1, lay |-> lay]

\* _patch_iscripts, layout: the scripts and shops, the limit check and the
\* padding.  [err, buf, lay].
patch_layout(g, buf) ==
    LET lay == Layout(g)
        buf1 == WriteAt(buf, iscripts_offset, lay.bytes)
    IN  IF lay.err # NoErr THEN [err |-> lay.err, buf |-> buf1, lay |-> lay]
        ELSE IF IScriptsTooLarge(lay.total_bytes)
        THEN [err |-> Err("ROMPatchError", <<max_iscripts_len, lay.total_bytes>>),
              buf |-> buf1, lay |-> lay]
        ELSE [err |-> NoErr,
              buf |-> WriteAt(buf1, iscripts_offset + Len(lay.bytes),
                              Zeros(max_iscripts_len - lay.total_bytes)),
              lay |-> lay]

\* The two loops that patch the recorded positions.
RECURSIVE ApplyRefs(_, _, _, _)
ApplyRefs(buf, refs, offsets, todo) ==
    IF todo = {} THEN [err |-> NoErr, buf |-> buf]
    ELSE LET patch_addr == CHOOSE a \in todo : \A b \in todo : a <= b
         IN  IF refs[patch_addr] \notin DOMAIN offsets
             THEN [err |-> Err("KeyError", <<patch_addr>>), buf |-> buf]
             ELSE ApplyRefs(WriteAt(buf, patch_addr,
                                write_value(get_bank_addr_for(offsets[refs[patch_addr]]), 2)),
                            refs, offsets, todo \ {patch_addr})

\* The patch loops writing the low byte of each address only.
patch_refs_low_byte(buf, lay) ==
    LET one(b, refs, offsets) ==
            [o \in DOMAIN b |->
                IF o \in DOMAIN refs /\ refs[o] \in DOMAIN offsets
                THEN write_value(get_bank_addr_for(offsets[refs[o]]), 1)[1]
                ELSE b[o]]
    IN  [err |-> NoErr,
         buf |-> one(one(buf, lay.iscript_refs, lay.iscript_rom_offsets),
                     lay.shop_refs, lay.shop_rom_offsets)]

patch_refs(buf, lay) ==
    LET r == ApplyRefs(buf, lay.iscript_refs, lay.iscript_rom_offsets,
                       DOMAIN lay.iscript_refs)
    IN  IF r.err # NoErr THEN r
        ELSE ApplyRefs(r.buf, lay.shop_refs, lay.shop_rom_offsets, DOMAIN lay.shop_refs)

encode_iscript_addrs(rom_offsets) ==
    LET lower == [i \in DOMAIN rom_offsets |-> rom_offsets[i] % 256]
        upper == [i \in DOMAIN rom_offsets |-> (rom_offsets[i] \div 256) % 256]
        padding == IF Len(rom_offsets) < max_iscript_addrs
                   THEN Zeros(max_iscript_addrs - Len(rom_offsets))
                   ELSE <<>>
    IN  lower \o padding \o upper \o padding

\* _patch_iscript_entrypoints: [err, buf].
patch_iscript_entrypoints(g, buf, lay) ==
    IF TooManyEntrypoints(Len(g.entrypoints))
    THEN [err |-> Err("ROMPatchError", <<max_iscript_addrs, Len(g.entrypoints)>>),
          buf |-> buf]
    ELSE [err |-> NoErr,
          buf |-> WriteAt(buf, iscript_addrs_offset,
                          encode_iscript_addrs(lay.entrypoint_iscript_rom_offsets))]

NoFile == [written |-> FALSE, header |-> <<>>, body |-> EmptyMap]

\* The last lines of patch: the header, then the whole buffer.
WrittenFile(header, buf) == [written |-> TRUE, header |-> header, body |-> buf]

\* ROMPatcher.patch as one function: [err, out].
patch(g, f) ==
    LET m == patch_messages(g, f.body)
        l == patch_layout(g, m.buf)
        r == patch_refs(l.buf, l.lay)
        e == patch_iscript_entrypoints(g, r.buf, l.lay)
    IN  IF m.err # NoErr THEN [err |-> m.err, out |-> NoFile]
        ELSE IF l.err # NoErr THEN [err |-> l.err, out |-> NoFile]
        ELSE IF r.err # NoErr THEN [err |-> r.err, out |-> NoFile]
        ELSE IF e.err # NoErr THEN [err |-> e.err, out |-> NoFile]
        ELSE [err |-> NoErr, out |-> WrittenFile(SubSeq(f.header, 1, HeaderLen), e.buf)]


(***************************************************************************)
(* serializer.py: JSONSerializer.  The payload is a record; a Python dict  *)
(* is the sequence of its items in insertion order.  A value of the        *)
(* payload is tagged "int" or "name" (a str).                              *)
(***************************************************************************)
_serialize_iscript_action_param(h, info, v) ==
    CASE info.type = "SCRIPT_JUMP_ADDR" -> NameVal(TargetName(h, v))
      [] info.type = "SHOP_ADDR" -> NameVal(v.s)
      [] info.type = "MESSAGE" -> NameVal(v.s)
      [] OTHER -> v

_serialize_iscript_action(h, action) ==
    [kind |-> "action", label |-> <<>>,
     action |-> ACTION_TYPES[action.action_id].name,
     params |-> [k \in DOMAIN action.params |->
                    _serialize_iscript_action_param(
                        h, ACTION_TYPES[action.action_id].params[k], action.params[k])]]

\* Whether _serialize_iscript_label returns a payload for the label.
LabelIsSerialized(label) == label.ref_count # 0

_serialize_iscript_label(label) ==
    [kind |-> "label", label |-> label.name, action |-> "", params |-> <<>>]

_serialize_iscript(h, iscript) ==
    LET kept == SelectSeq(iscript.code,
                    LAMBDA c : c.kind = "action" \/ LabelIsSerialized(c))
    IN  [name |-> iscript.name,
         entity |-> iscript.entity,
         code |-> [i \in DOMAIN kept |->
                      IF kept[i].kind = "action"
                      THEN _serialize_iscript_action(h, kept[i])
                      ELSE _serialize_iscript_label(kept[i])]]

\* d[key] = value on a dict.
DictPut(d, key, value) ==
    IF \E i \in DOMAIN d : d[i].key = key
    THEN [i \in DOMAIN d |-> IF d[i].key = key THEN [key |-> key, value |-> value] ELSE d[i]]
    ELSE Append(d, [key |-> key, value |-> value])

RECURSIVE _serialize_messages_from(_, _, _)
_serialize_messages_from(ms, i, d) ==
    IF i > Len(ms) THEN d
    ELSE _serialize_messages_from(ms, i + 1, DictPut(d, ms[i].message_id, ms[i].string))

_serialize_messages(ms) == _serialize_messages_from(ms, 1, <<>>)

_serialize_shops(ss) == [i \in DOMAIN ss |-> [key |-> ss[i].name, value |-> ss[i].items]]

serialize(g) ==
    [iscript_entrypoints |-> g.entrypoints,
     iscripts |-> [i \in DOMAIN g.coll |-> _serialize_iscript(g.heap, g.heap[g.coll[i]])],
     messages |-> _serialize_messages(g.messages),
     shops |-> _serialize_shops(g.shops)]

NoData == [iscript_entrypoints |-> <<>>, iscripts |-> <<>>, messages |-> <<>>,
           shops |-> <<>>]

(***************************************************************************)
(* deserializer.py: JSONDeserializer.  acc holds the error met so far, the *)
(* scripts created, _iscript_targets and _iscript_refs_to_resolve.         *)
(***************************************************************************)
_deserialize_messages(d) == [i \in DOMAIN d |-> Message(d[i].key, d[i].value)]

_deserialize_shops(d) == [i \in DOMAIN d |-> [name |-> d[i].key, items |-> d[i].value]]

\* zip(action_data['params'], action_type.params)
ZipLen(params, info) == Min(Len(params), Len(info.params))

\* _deserialize_iscript_action_param for the parameters from k on; the
\* action is the last segment of script sid.
RECURSIVE DeserializeParams(_, _, _, _, _, _)
DeserializeParams(ms, ss, sid, seg, k, acc) ==
    LET info == ACTION_TYPES_BY_NAME[seg.action]
        ci == Len(acc.heap[sid].code)
        v == seg.params[k]
        put(val) == [acc EXCEPT !.heap[sid].code[ci].params = Append(@, val)]
    IN  IF k > ZipLen(seg.params, info) \/ acc.err # NoErr THEN acc
        ELSE CASE info.params[k].type = "SCRIPT_JUMP_ADDR" ->
                    DeserializeParams(ms, ss, sid, seg, k + 1,
                        [put(v) EXCEPT !.refs = Append(@, <<sid, ci, k>>)])
               [] info.params[k].type = "SHOP_ADDR" ->
                    IF v.tag = "name" /\ HasShop(ss, v.s)
                    THEN DeserializeParams(ms, ss, sid, seg, k + 1, put(ShopRef(v.s)))
                    ELSE [acc EXCEPT !.err = Err("KeyError", <<>>)]
               [] info.params[k].type = "MESSAGE" ->
                    IF v.tag = "name" /\ HasMessageId(ms, v.s)
                    THEN DeserializeParams(ms, ss, sid, seg, k + 1, put(MsgVal(v.s)))
                    ELSE [acc EXCEPT !.err = Err("KeyError", <<>>)]
               [] OTHER ->
                    DeserializeParams(ms, ss, sid, seg, k + 1, put(v))

\* _deserialize_iscript_code for the segments from i on.
RECURSIVE DeserializeCode(_, _, _, _, _, _)
DeserializeCode(ms, ss, sid, code, i, acc) ==
    IF i > Len(code) \/ acc.err # NoErr THEN acc
    ELSE LET seg == code[i]
         IN  IF seg.kind = "label"
             THEN IF seg.label \in DOMAIN acc.targets
                  THEN [acc EXCEPT !.err = Err("JSONDeserializerError", <<>>)]
                  ELSE DeserializeCode(ms, ss, sid, code, i + 1,
                          [acc EXCEPT
                              !.heap[sid].code = Append(@, IScriptLabel(seg.label)),
                              !.targets = Put(@, seg.label,
                                  [iscript |-> sid,
                                   label |-> Len(acc.heap[sid].code) + 1])])
             ELSE IF seg.action \notin ActionNames
             THEN [acc EXCEPT !.err = Err("KeyError", <<>>)]
             ELSE DeserializeCode(ms, ss, sid, code, i + 1,
                      DeserializeParams(ms, ss, sid, seg, 1,
                          [acc EXCEPT !.heap[sid].code = Append(@,
                              IScriptAction(ACTION_TYPES_BY_NAME[seg.action].action_id,
                                            <<>>))]))

\* _deserialize_iscripts for the scripts from i on.
RECURSIVE DeserializeIScripts(_, _, _, _, _)
DeserializeIScripts(ms, ss, data, i, acc) ==
    IF i > Len(data) \/ acc.err # NoErr THEN acc
    ELSE LET d == data[i]
             sid == Len(acc.heap) + 1
         IN  IF d.name \in DOMAIN acc.targets
             THEN [acc EXCEPT !.err = Err("AssertionError", <<>>)]
             ELSE DeserializeIScripts(ms, ss, data, i + 1,
                     DeserializeCode(ms, ss, sid, d.code, 1,
                         [acc EXCEPT
                             !.heap = Append(@, IScript(d.name, d.entity)),
                             !.targets = Put(@, d.name, [iscript |-> sid, label |-> 0])]))

\* _resolve_iscript_refs for the references from i on.
RECURSIVE ResolveRefs(_, _)
ResolveRefs(i, acc) ==
    IF i > Len(acc.refs) \/ acc.err # NoErr THEN acc
    ELSE LET r == acc.refs[i]
             v == acc.heap[r[1]].code[r[2]].params[r[3]]
         IN  IF v.tag = "name" /\ v.s \in DOMAIN acc.targets
             THEN ResolveRefs(i + 1,
                      [acc EXCEPT !.heap = SetTargetRef(@, r[1], <<r[2], r[3]>>,
                                                        acc.targets[v.s])])
             ELSE [acc EXCEPT !.err = Err("KeyError", <<>>)]

\* deserialize: [err, graph].
deserialize(data) ==
    LET ms == _deserialize_messages(data.messages)
        ss == _deserialize_shops(data.shops)
        acc == ResolveRefs(1,
                   DeserializeIScripts(ms, ss, data.iscripts, 1,
                       [err |-> NoErr, heap |-> <<>>, targets |-> EmptyMap,
                        refs |-> <<>>]))
    IN  [err |-> acc.err,
         graph |-> Graph(ms, acc.heap, [i \in DOMAIN acc.heap |-> i],
                         data.iscript_entrypoints, ss)]

(***************************************************************************)
(* State.                                                                  *)
(***************************************************************************)
VARIABLES
    file,                   \* the ROM file given to read and to patch
    pc,                     \* where the run is
    err,                    \* the error that ended read, deserialize or patch
    messages,               \* rom.messages
    heap,                   \* every IScript created, in creation order
    coll,                   \* rom.iscripts.iscripts: heap positions, in order
    entrypoints,            \* rom.iscripts.entrypoints
    shops,                  \* rom.shops
    reffable_addrs,         \* _read_iscripts: address -> (script, label)
    seen_entrypoint_addrs,  \* _read_iscripts
    ep_i,                   \* _read_iscripts: position in the address table
    stack,                  \* the active calls of _read_iscript
    scans,                  \* the address each script of the heap was read at
    json,                   \* the payload of serialize, as edited
    edit,                   \* the edit made to the payload, or "none"
    orig,                   \* the graph that was serialized
    buf,                    \* patch: the ROMIO buffer
    lay,                    \* patch: what _patch_iscripts recorded
    out,                    \* the patched file
    conv,                   \* an offset and what the address helpers make of it
    options,                \* the command line the caller gave
    rom                     \* the ROM information the run works with

vars == <<file, pc, err, messages, heap, coll, entrypoints, shops, reffable_addrs,
          seen_entrypoint_addrs, ep_i, stack, scans, json, edit, orig, buf, lay, out,
          conv, options, rom>>

cliVars == <<options, rom>>

jsonVars == <<json, edit, orig>>

patchVars == <<buf, lay, out>>

romVars == <<messages, heap, coll, entrypoints, shops>>

readVars == <<reffable_addrs, seen_entrypoint_addrs, ep_i, stack, scans>>

\* FaxanaduROM(): the ROM information with every field at its default but
\* the lengths and the slot count the model is configured with.
FaxanaduROM ==
    [messages_offset |-> messages_offset,
     max_iscript_addrs |-> max_iscript_addrs,
     iscript_addrs_offset |-> iscript_addrs_offset,
     iscripts_offset |-> iscripts_offset,
     max_iscripts_len |-> max_iscripts_len,
     max_messages_len |-> max_messages_len]

\* No command line was given.
NoOptions == [action |-> "none", script_addrs_offset |-> None,
              messages_offset |-> None, num_scripts |-> None]

\* No offset has been converted.
NoConv == [rom_addr |-> None, bank |-> None, addr |-> None, offset |-> None]

Init ==
    /\ file \in Files
    /\ pc = "start"
    /\ err = NoErr
    /\ messages = <<>>
    /\ heap = <<>>
    /\ coll = <<>>
    /\ entrypoints = <<>>
    /\ shops = <<>>
    /\ reffable_addrs = EmptyMap
    /\ seen_entrypoint_addrs = {}
    /\ ep_i = 1
    /\ stack = <<>>
    /\ scans = <<>>
    /\ json = NoData
    /\ edit = "none"
    /\ orig = NoGraph
    /\ buf = EmptyMap
    /\ lay = NoLayout
    /\ out = NoFile
    /\ conv = NoConv
    /\ options = NoOptions
    /\ rom = FaxanaduROM

(***************************************************************************)
(* decoder.py: ROMReader.read.                                             *)
(***************************************************************************)
ReadFail(e) ==
    /\ pc' = "read_failed"
    /\ err' = e

\* read, _read_messages and the head of _read_iscripts.
ReadMessages ==
    /\ pc = "start"
    /\ LET r == decode_messages(file.body, messages_offset)
       IN  IF r.status = "ok"
           THEN /\ messages' = r.messages
                /\ pc' = "entrypoints"
                /\ err' = err
           ELSE /\ ReadFail(Err(r.status, <<>>))
                /\ messages' = messages
    /\ UNCHANGED <<conv, cliVars, jsonVars, patchVars, file, heap, coll, entrypoints, shops, readVars>>

Bank == get_bank_for(iscript_addrs_offset)

EntryAddrs == iter_decode_iscript_addrs(file.body, iscript_addrs_offset, max_iscript_addrs)

\* A scan that does not register the address it starts at.
NewScanUnregistered(h, reff, bank_addr, read_entity, name) ==
    LET pos == get_rom_offset_for(Bank, bank_addr)
        sid == Len(h) + 1
        ent == IF read_entity /\ pos \in DOMAIN file.body THEN file.body[pos] ELSE None
    IN  [ok |-> ~read_entity \/ pos \in DOMAIN file.body,
         heap |-> Append(h, IScript(name, ent)),
         reffable |-> reff,
         frame |-> [iscript |-> sid, bank_addr |-> bank_addr,
                    pos |-> IF read_entity THEN pos + 1 ELSE pos,
                    scanning |-> TRUE, jump_queues |-> {}, store_items_queues |-> {},
                    iscripts |-> <<sid>>, cur |-> <<>>]]

\* The head of _read_iscript: seek, create the script, register it, read
\* the entity.
NewScan(h, reff, bank_addr, read_entity, name) ==
    LET pos == get_rom_offset_for(Bank, bank_addr)
        sid == Len(h) + 1
        ent == IF read_entity /\ pos \in DOMAIN file.body THEN file.body[pos] ELSE None
    IN  [ok |-> ~read_entity \/ pos \in DOMAIN file.body,
         heap |-> Append(h, IScript(name, ent)),
         reffable |-> Put(reff, bank_addr, [iscript |-> sid, label |-> 0]),
         frame |-> [iscript |-> sid, bank_addr |-> bank_addr,
                    pos |-> IF read_entity THEN pos + 1 ELSE pos,
                    scanning |-> TRUE, jump_queues |-> {}, store_items_queues |-> {},
                    iscripts |-> <<sid>>, cur |-> <<>>]]

\* One turn of the loop of _read_iscripts.
NextEntrypoint ==
    /\ pc = "entrypoints"
    /\ stack = <<>>
    /\ ep_i <= max_iscript_addrs
    /\ LET bank_addr == EntryAddrs[ep_i]
           name == DEFAULT_ISCRIPT_ORDER[ep_i]
           n == NewScan(heap, reffable_addrs, bank_addr, TRUE, name)
       IN  /\ entrypoints' = Append(entrypoints, name)
           /\ IF bank_addr \in seen_entrypoint_addrs
              THEN /\ ep_i' = ep_i + 1
                   /\ UNCHANGED <<pc, err, heap, reffable_addrs, seen_entrypoint_addrs,
                                  stack, scans>>
              ELSE /\ seen_entrypoint_addrs' = seen_entrypoint_addrs \cup {bank_addr}
                   /\ heap' = n.heap
                   /\ reffable_addrs' = n.reffable
                   /\ scans' = Append(scans, bank_addr)
                   /\ stack' = <<n.frame>>
                   /\ ep_i' = ep_i
                   /\ IF n.ok THEN UNCHANGED <<pc, err>>
                      ELSE ReadFail(Err("off_model", <<bank_addr>>))
    /\ UNCHANGED <<conv, cliVars, jsonVars, patchVars, file, messages, coll, shops>>

\* The table is exhausted: read returns the ROM information.
ReadDone ==
    /\ pc = "entrypoints"
    /\ stack = <<>>
    /\ ep_i > max_iscript_addrs
    /\ pc' = "decoded"
    /\ UNCHANGED <<conv, cliVars, jsonVars, patchVars, file, err, romVars, readVars>>


Top == stack[Len(stack)]

SetTop(f) == [stack EXCEPT ![Len(stack)] = f]

\* The offset of parameter k behind the action byte at pos.
ParamPos(info, pos, k) == pos + 1 + SumSeq([j \in 1..(k - 1) |-> info.params[j].size])

ActionSize(info) == 1 + SumSeq([j \in DOMAIN info.params |-> info.params[j].size])

ParamsOfType(info, type) == {k \in DOMAIN info.params : info.params[k].type = type}

\* A scan that stops at the "end" action alone.
ScanEndsOnEnd(info) == info.action_id = 0

\* Whether the scan loop of _read_iscript breaks behind an action.
ScanEnds(info) == info.ends

\* One turn of the scan loop of _read_iscript: a label where the address is
\* not the script's own, then read_iscript_action and the queueing of its
\* parameters.
ReadAction ==
    /\ pc = "entrypoints"
    /\ stack # <<>>
    /\ Top.scanning
    /\ LET f == Top
           sid == f.iscript
           body == file.body
           cur_addr == get_bank_addr_for(f.pos)
           labelled == cur_addr # f.bank_addr
           code1 == IF labelled THEN Append(heap[sid].code, IScriptLabel(Hex(cur_addr)))
                    ELSE heap[sid].code
           reff1 == IF labelled
                    THEN Put(reffable_addrs, cur_addr,
                             [iscript |-> sid, label |-> Len(code1)])
                    ELSE reffable_addrs
           action_id == body[f.pos]
           info == ACTION_TYPES[action_id]
           raw(k) == read_value_at(body, ParamPos(info, f.pos, k), info.params[k].size)
           ci == Len(code1) + 1
           params == [k \in DOMAIN info.params |->
                        IF info.params[k].type = "MESSAGE"
                        THEN MsgVal(messages[raw(k)].message_id)
                        ELSE IntVal(raw(k))]
       IN  /\ reffable_addrs' = reff1
           /\ IF f.pos \notin DOMAIN body
              THEN /\ ReadFail(Err("off_model", <<cur_addr>>))
                   /\ heap' = [heap EXCEPT ![sid].code = code1]
                   /\ stack' = stack
              ELSE IF action_id \notin ActionIds
              THEN /\ ReadFail(Err("ValueError", <<action_id>>))
                   /\ heap' = [heap EXCEPT ![sid].code = code1]
                   /\ stack' = stack
              ELSE IF ~InModel(body, f.pos, ActionSize(info))
              THEN /\ ReadFail(Err("off_model", <<cur_addr>>))
                   /\ heap' = [heap EXCEPT ![sid].code = code1]
                   /\ stack' = stack
              ELSE IF \E k \in ParamsOfType(info, "MESSAGE") :
                          ~ValidMessageIndex(messages, raw(k))
              THEN /\ ReadFail(Err("AssertionError", <<>>))
                   /\ heap' = [heap EXCEPT ![sid].code =
                                  Append(code1, IScriptAction(action_id, <<>>))]
                   /\ stack' = stack
              ELSE /\ heap' = [heap EXCEPT ![sid].code =
                                  Append(code1, IScriptAction(action_id, params))]
                   /\ stack' = SetTop([f EXCEPT
                          !.pos = f.pos + ActionSize(info),
                          !.scanning = ~ScanEnds(info),
                          !.jump_queues = @ \cup
                              {<<ci, k>> : k \in ParamsOfType(info, "SCRIPT_JUMP_ADDR")},
                          !.store_items_queues = @ \cup
                              {<<ci, k>> : k \in ParamsOfType(info, "SHOP_ADDR")}])
                   /\ UNCHANGED <<pc, err>>
    /\ UNCHANGED <<conv, cliVars, jsonVars, patchVars, file, messages, coll, entrypoints, shops, seen_entrypoint_addrs,
                   ep_i, scans>>

ParamAt(sid, p) == heap[sid].code[p[1]].params[p[2]]

\* One turn of the loop over jump_queues, for a target that is registered:
\* the parameter becomes a reference to it.  The set is iterated in an
\* order the program does not fix.
ResolveJump ==
    /\ pc = "entrypoints"
    /\ stack # <<>>
    /\ ~Top.scanning
    /\ Top.cur = <<>>
    /\ \E p \in Top.jump_queues :
        /\ ParamAt(Top.iscript, p).n \in DOMAIN reffable_addrs
        /\ heap' = SetTargetRef(heap, Top.iscript, p,
                                reffable_addrs[ParamAt(Top.iscript, p).n])
        /\ stack' = SetTop([Top EXCEPT !.jump_queues = @ \ {p}])
    /\ UNCHANGED <<conv, cliVars, jsonVars, patchVars, file, pc, err, messages, coll, entrypoints, shops, reffable_addrs,
                   seen_entrypoint_addrs, ep_i, scans>>

\* One turn of the loop over jump_queues, for a target that is not
\* registered: the nested _read_iscript call starts.
CallReadIScript ==
    /\ pc = "entrypoints"
    /\ stack # <<>>
    /\ ~Top.scanning
    /\ Top.cur = <<>>
    /\ \E p \in Top.jump_queues :
        LET bank_addr == ParamAt(Top.iscript, p).n
            n == NewScan(heap, reffable_addrs, bank_addr, FALSE, Hex(bank_addr))
        IN  /\ bank_addr \notin DOMAIN reffable_addrs
            /\ heap' = n.heap
            /\ reffable_addrs' = n.reffable
            /\ scans' = Append(scans, bank_addr)
            /\ stack' = Append(SetTop([Top EXCEPT !.cur = p]), n.frame)
    /\ UNCHANGED <<conv, cliVars, jsonVars, patchVars, file, pc, err, messages, coll, entrypoints, shops,
                   seen_entrypoint_addrs, ep_i>>

\* One turn of the loop over store_items_queues: _read_shop.
ResolveShop ==
    /\ pc = "entrypoints"
    /\ stack # <<>>
    /\ ~Top.scanning
    /\ Top.jump_queues = {}
    /\ \E p \in Top.store_items_queues :
        LET bank_addr == ParamAt(Top.iscript, p).n
            r == read_shop_items(file.body, get_rom_offset_for(Bank, bank_addr))
        IN  IF r.ok
            THEN /\ shops' = PutShop(shops, Hex(bank_addr), r.items)
                 /\ heap' = [heap EXCEPT ![Top.iscript].code[p[1]].params[p[2]] =
                                ShopRef(Hex(bank_addr))]
                 /\ stack' = SetTop([Top EXCEPT !.store_items_queues = @ \ {p}])
                 /\ UNCHANGED <<pc, err>>
            ELSE /\ ReadFail(Err("off_model", <<bank_addr>>))
                 /\ UNCHANGED <<shops, heap, stack>>
    /\ UNCHANGED <<conv, cliVars, jsonVars, patchVars, file, messages, coll, entrypoints, reffable_addrs,
                   seen_entrypoint_addrs, ep_i, scans>>

FrameDone(f) == ~f.scanning /\ f.jump_queues = {} /\ f.store_items_queues = {}

\* A nested _read_iscript returns: the caller extends its list and turns
\* the parameter into a reference to what the address is registered to.
ReturnNested ==
    /\ pc = "entrypoints"
    /\ Len(stack) > 1
    /\ FrameDone(Top)
    /\ LET caller == stack[Len(stack) - 1]
           p == caller.cur
       IN  /\ heap' = SetTargetRef(heap, caller.iscript, p,
                                   reffable_addrs[ParamAt(caller.iscript, p).n])
           /\ stack' = Append(SubSeq(stack, 1, Len(stack) - 2),
                              [caller EXCEPT !.iscripts = @ \o Top.iscripts,
                                             !.jump_queues = @ \ {p},
                                             !.cur = <<>>])
    /\ UNCHANGED <<conv, cliVars, jsonVars, patchVars, file, pc, err, messages, coll, entrypoints, shops, reffable_addrs,
                   seen_entrypoint_addrs, ep_i, scans>>

\* IScripts.add_many: every name must be new to the collection.
CanAddMany(h, c, sids) ==
    /\ \A i \in DOMAIN sids : \A j \in DOMAIN c : h[sids[i]].name # h[c[j]].name
    /\ \A i, j \in DOMAIN sids : i # j => h[sids[i]].name # h[sids[j]].name

\* The _read_iscript call of an entrypoint returns: add_many.
ReturnEntrypoint ==
    /\ pc = "entrypoints"
    /\ Len(stack) = 1
    /\ FrameDone(Top)
    /\ IF CanAddMany(heap, coll, Top.iscripts)
       THEN /\ coll' = coll \o Top.iscripts
            /\ ep_i' = ep_i + 1
            /\ stack' = <<>>
            /\ UNCHANGED <<pc, err>>
       ELSE /\ ReadFail(Err("AssertionError", <<>>))
            /\ UNCHANGED <<coll, ep_i, stack>>
    /\ UNCHANGED <<conv, cliVars, jsonVars, patchVars, file, messages, heap, entrypoints, shops, reffable_addrs,
                   seen_entrypoint_addrs, scans>>



\* The ROM information as it stands.
Cur == Graph(messages, heap, coll, entrypoints, shops)

(***************************************************************************)
(* The dump: serialize, an edit of the payload by its user, deserialize.   *)
(***************************************************************************)
Serialize ==
    /\ pc = "decoded"
    /\ json' = serialize(Cur)
    /\ pc' = "serialized"
    /\ UNCHANGED <<conv, cliVars, file, err, romVars, readVars, edit, orig, patchVars>>

Edited(name, data) ==
    /\ pc = "serialized"
    /\ json' = data
    /\ edit' = name
    /\ pc' = "edited"
    /\ UNCHANGED <<conv, cliVars, file, err, romVars, readVars, orig, patchVars>>

Swap12(s) == [i \in DOMAIN s |-> IF i = 1 THEN s[2] ELSE IF i = 2 THEN s[1] ELSE s[i]]

\* "new"
NewName == <<110, 101, 119>>

\* The first two entrypoints change places.
EditSwapEntrypoints ==
    /\ Len(json.iscript_entrypoints) >= 2
    /\ Edited("swap_entrypoints",
              [json EXCEPT !.iscript_entrypoints = Swap12(@)])

\* The second entrypoint becomes the first one's script.
EditRepeatEntrypoint ==
    /\ Len(json.iscript_entrypoints) >= 2
    /\ Edited("repeat_entrypoint",
              [json EXCEPT !.iscript_entrypoints[2] = json.iscript_entrypoints[1]])

\* One more entrypoint.
EditAppendEntrypoint ==
    /\ Len(json.iscript_entrypoints) >= 1
    /\ Edited("append_entrypoint",
              [json EXCEPT !.iscript_entrypoints = Append(@, json.iscript_entrypoints[1])])

\* One more message, "B".
EditAppendMessage ==
    /\ Len(json.messages) >= 1
    /\ Edited("append_message",
              [json EXCEPT !.messages = DictPut(@, MsgId(Len(json.messages) + 1), <<66>>)])

\* The last message is taken out.
EditDropMessage ==
    /\ Len(json.messages) >= 2
    /\ Edited("drop_message",
              [json EXCEPT !.messages = SubSeq(@, 1, Len(@) - 1)])

\* The first two scripts change places.
EditSwapIScripts ==
    /\ Len(json.iscripts) >= 2
    /\ Edited("swap_iscripts", [json EXCEPT !.iscripts = Swap12(@)])

\* One more script, of one "end" action.
EditAppendIScript ==
    /\ Len(json.iscripts) >= 1
    /\ Edited("append_iscript",
              [json EXCEPT !.iscripts = Append(@,
                  [name |-> NewName, entity |-> None,
                   code |-> <<[kind |-> "action", label |-> <<>>, action |-> "end",
                               params |-> <<>>]>>])])

\* One more script, under the name of the first one.
EditRepeatIScript ==
    /\ Len(json.iscripts) >= 1
    /\ Edited("repeat_iscript",
              [json EXCEPT !.iscripts = Append(@, json.iscripts[1])])

\* The first entrypoint becomes a name no script has.
EditUnknownEntrypoint ==
    /\ Len(json.iscript_entrypoints) >= 1
    /\ Edited("unknown_entrypoint",
              [json EXCEPT !.iscript_entrypoints[1] = NewName])

\* Whether a payload holds a parameter of a type.
HasParamOfType(data, type) ==
    \E i \in DOMAIN data.iscripts : \E c \in DOMAIN data.iscripts[i].code :
        /\ data.iscripts[i].code[c].kind = "action"
        /\ ParamsOfType(ACTION_TYPES_BY_NAME[data.iscripts[i].code[c].action], type) # {}

\* The payload with every parameter of a type set to a name.
WithParamsNamed(data, type, name) ==
    [data EXCEPT !.iscripts =
        [i \in DOMAIN data.iscripts |->
            [data.iscripts[i] EXCEPT !.code =
                [c \in DOMAIN data.iscripts[i].code |->
                    LET seg == data.iscripts[i].code[c]
                    IN  IF seg.kind # "action" THEN seg
                        ELSE [seg EXCEPT !.params =
                                 [k \in DOMAIN seg.params |->
                                     IF ACTION_TYPES_BY_NAME[seg.action].params[k].type = type
                                     THEN NameVal(name)
                                     ELSE seg.params[k]]]]]]]

\* The jump targets become a name no script and no label has.
EditUnknownTarget ==
    /\ HasParamOfType(json, "SCRIPT_JUMP_ADDR")
    /\ Edited("unknown_target", WithParamsNamed(json, "SCRIPT_JUMP_ADDR", NewName))

\* The shop parameters become a name no shop has.
EditUnknownShop ==
    /\ HasParamOfType(json, "SHOP_ADDR")
    /\ Edited("unknown_shop", WithParamsNamed(json, "SHOP_ADDR", NewName))

\* The message parameters become a name no message has.
EditUnknownMessage ==
    /\ HasParamOfType(json, "MESSAGE")
    /\ Edited("unknown_message", WithParamsNamed(json, "MESSAGE", NewName))

\* The payload with the parameter list of every action replaced.
WithParams(data, new(_)) ==
    [data EXCEPT !.iscripts =
        [i \in DOMAIN data.iscripts |->
            [data.iscripts[i] EXCEPT !.code =
                [c \in DOMAIN data.iscripts[i].code |->
                    LET seg == data.iscripts[i].code[c]
                    IN  IF seg.kind # "action" THEN seg
                        ELSE [seg EXCEPT !.params = new(seg.params)]]]]]

HasParams(data) ==
    \E i \in DOMAIN data.iscripts : \E c \in DOMAIN data.iscripts[i].code :
        data.iscripts[i].code[c].kind = "action" /\ data.iscripts[i].code[c].params # <<>>

\* Every action that has parameters loses its last one.
EditDropParam ==
    /\ HasParams(json)
    /\ LET new(ps) == IF ps = <<>> THEN ps ELSE SubSeq(ps, 1, Len(ps) - 1)
       IN  Edited("drop_param", WithParams(json, new))

\* Every action gets one more parameter, the number 1.
EditExtraParam ==
    /\ Len(json.iscripts) >= 1
    /\ LET new(ps) == Append(ps, IntVal(1))
       IN  Edited("extra_param", WithParams(json, new))

Deserialize ==
    /\ pc \in {"serialized", "edited"}
    /\ LET r == deserialize(json)
       IN  IF r.err = NoErr
           THEN /\ messages' = r.graph.messages
                /\ heap' = r.graph.heap
                /\ coll' = r.graph.coll
                /\ entrypoints' = r.graph.entrypoints
                /\ shops' = r.graph.shops
                /\ orig' = Cur
                /\ pc' = "loaded"
                /\ err' = err
           ELSE /\ pc' = "deserialize_failed"
                /\ err' = r.err
                /\ UNCHANGED <<romVars, orig>>
    /\ UNCHANGED <<conv, cliVars, file, readVars, json, edit, patchVars>>

(***************************************************************************)
(* encoder.py: ROMPatcher.patch, step by step.                             *)
(***************************************************************************)
\* A step whose error does not end the patch.
PatchStepIgnoringError(r, next) ==
    /\ buf' = r.buf
    /\ pc' = next
    /\ err' = err

\* One step of patch: its error, if any, ends the patch.
PatchStep(r, next) ==
    /\ buf' = r.buf
    /\ IF r.err = NoErr
       THEN /\ pc' = next
            /\ err' = err
       ELSE /\ pc' = "patch_failed"
            /\ err' = r.err

\* patch: the file is read, then _patch_messages.
PatchMessages ==
    /\ pc \in {"decoded", "loaded"}
    /\ PatchStep(patch_messages(Cur, file.body), "patch_iscripts")
    /\ UNCHANGED <<conv, cliVars, file, romVars, readVars, jsonVars, lay, out>>

\* _patch_iscripts: the layout of scripts and shops, the limit, the padding.
PatchLayout ==
    /\ pc = "patch_iscripts"
    /\ PatchStep(patch_layout(Cur, buf), "patch_refs")
    /\ lay' = patch_layout(Cur, buf).lay
    /\ UNCHANGED <<conv, cliVars, file, romVars, readVars, jsonVars, out>>

\* _patch_iscripts: the recorded positions are patched.
PatchRefs ==
    /\ pc = "patch_refs"
    /\ PatchStep(patch_refs(buf, lay), "patch_entrypoints")
    /\ UNCHANGED <<conv, cliVars, file, romVars, readVars, jsonVars, lay, out>>

\* _patch_iscript_entrypoints.
PatchEntrypoints ==
    /\ pc = "patch_entrypoints"
    /\ PatchStep(patch_iscript_entrypoints(Cur, buf, lay), "write")
    /\ UNCHANGED <<conv, cliVars, file, romVars, readVars, jsonVars, lay, out>>

\* patch: the patched file is written.
WriteOutput ==
    /\ pc = "write"
    /\ out' = WrittenFile(SubSeq(file.header, 1, HeaderLen), buf)
    /\ pc' = "patched"
    /\ UNCHANGED <<conv, cliVars, file, err, romVars, readVars, jsonVars, buf, lay>>

Next ==
    \/ ReadMessages
    \/ NextEntrypoint
    \/ ReadDone
    \/ ReadAction
    \/ ResolveJump
    \/ CallReadIScript
    \/ ResolveShop
    \/ ReturnNested
    \/ ReturnEntrypoint
    \/ Serialize
    \/ EditSwapEntrypoints
    \/ EditRepeatEntrypoint
    \/ EditAppendEntrypoint
    \/ EditAppendMessage
    \/ EditDropMessage
    \/ EditSwapIScripts
    \/ EditAppendIScript
    \/ EditRepeatIScript
    \/ EditUnknownEntrypoint
    \/ EditUnknownTarget
    \/ EditUnknownShop
    \/ EditUnknownMessage
    \/ EditDropParam
    \/ EditExtraParam
    \/ Deserialize
    \/ PatchMessages
    \/ PatchLayout
    \/ PatchRefs
    \/ PatchEntrypoints
    \/ WriteOutput

Spec == Init /\ [][Next]_vars

\* The steps of ROMReader.read.
ReadNext ==
    \/ ReadMessages
    \/ NextEntrypoint
    \/ ReadDone
    \/ ReadAction
    \/ ResolveJump
    \/ CallReadIScript
    \/ ResolveShop
    \/ ReturnNested
    \/ ReturnEntrypoint

\* read is a sequential program: while it has a step to take, it takes one.
SpecLive == Spec /\ WF_vars(ReadNext)

(***************************************************************************)
(* decoder.py: two reads of one image, each into a ROM information of its  *)
(* own.  orig keeps what the first read returned.                          *)
(***************************************************************************)
\* ROMReader().read(filename) once more, after the first read has returned.
ReadAgain ==
    /\ pc = "decoded"
    /\ edit = "none"
    /\ orig' = Cur
    /\ edit' = "read_again"
    /\ pc' = "start"
    /\ messages' = <<>>
    /\ heap' = <<>>
    /\ coll' = <<>>
    /\ entrypoints' = <<>>
    /\ shops' = <<>>
    /\ reffable_addrs' = EmptyMap
    /\ seen_entrypoint_addrs' = {}
    /\ ep_i' = 1
    /\ stack' = <<>>
    /\ scans' = <<>>
    /\ UNCHANGED <<conv, cliVars, file, err, json, patchVars>>

NextTwice ==
    \/ ReadNext
    \/ ReadAgain

\* entity, if-has-gold 1, if-has-gold 10, jump 11; end; end: a script of
\* three deferred parameters, two of them for scripts not read before.
ThreeJumps ==
    <<128, 13>> \o Addr(1) \o <<13>> \o Addr(10) \o <<23>> \o Addr(11) \o <<0, 0>>

TwiceFiles ==
    Files \cup { [header |-> Header,
                  body |-> Image([i \in 1..max_iscript_addrs |-> 0],
                                 ThreeJumps, <<65, 255>>)] }

InitTwice ==
    /\ file \in TwiceFiles
    /\ pc = "start"
    /\ err = NoErr
    /\ messages = <<>>
    /\ heap = <<>>
    /\ coll = <<>>
    /\ entrypoints = <<>>
    /\ shops = <<>>
    /\ reffable_addrs = EmptyMap
    /\ seen_entrypoint_addrs = {}
    /\ ep_i = 1
    /\ stack = <<>>
    /\ scans = <<>>
    /\ json = NoData
    /\ edit = "none"
    /\ orig = NoGraph
    /\ buf = EmptyMap
    /\ lay = NoLayout
    /\ out = NoFile
    /\ conv = NoConv
    /\ options = NoOptions
    /\ rom = FaxanaduROM

SpecTwice == InitTwice /\ [][NextTwice]_vars

(***************************************************************************)
(* decoder.py: ROMReader.read of a ROM configured with as many table slots *)
(* as DEFAULT_ISCRIPT_ORDER has names up to the first one it holds twice,  *)
(* FaxanaduROM(max_iscript_addrs=31).  Of the slots between the first and  *)
(* the last, whose names differ from all others, the images hold one       *)
(* address.                                                                *)
(***************************************************************************)
ReusedNameSlot == Len(DEFAULT_ISCRIPT_ORDER)

LongTable(first, between, last) ==
    [i \in 1..ReusedNameSlot |->
        IF i = 1 THEN first ELSE IF i = ReusedNameSlot THEN last ELSE between]

LongImage(table, program, msgs) ==
    LET tb  == [i \in 1..ReusedNameSlot |-> Addr(table[i])[1]] \o
               [i \in 1..ReusedNameSlot |-> Addr(table[i])[2]]
        reg == PadTo(program, max_iscripts_len)
        msg == PadTo(msgs, max_messages_len + 1)
        tbl == iscript_addrs_offset..(iscript_addrs_offset + Len(tb) - 1)
        rgn == iscripts_offset..(iscripts_offset + Len(reg) - 1)
        mss == messages_offset..(messages_offset + Len(msg) - 1)
        edge == {iscript_addrs_offset - 1, iscript_addrs_offset + Len(tb),
                 iscripts_offset - 1, iscripts_offset + Len(reg),
                 messages_offset - 1, messages_offset + Len(msg)}
    IN  [o \in tbl \cup rgn \cup mss \cup edge |->
            IF o \in tbl THEN tb[o - iscript_addrs_offset + 1]
            ELSE IF o \in rgn THEN reg[o - iscripts_offset + 1]
            ELSE IF o \in mss THEN msg[o - messages_offset + 1]
            ELSE Marker]

LongFiles ==
    { [header |-> Header,
       body |-> LongImage(LongTable(first, between, last), program, msgs)] :
        first \in EntryTargets, between \in EntryTargets, last \in EntryTargets,
        program \in UNION {Programs(t) : t \in Targets},
        msgs \in MsgTables }

InitLong ==
    /\ file \in LongFiles
    /\ pc = "start"
    /\ err = NoErr
    /\ messages = <<>>
    /\ heap = <<>>
    /\ coll = <<>>
    /\ entrypoints = <<>>
    /\ shops = <<>>
    /\ reffable_addrs = EmptyMap
    /\ seen_entrypoint_addrs = {}
    /\ ep_i = 1
    /\ stack = <<>>
    /\ scans = <<>>
    /\ json = NoData
    /\ edit = "none"
    /\ orig = NoGraph
    /\ buf = EmptyMap
    /\ lay = NoLayout
    /\ out = NoFile
    /\ conv = NoConv
    /\ options = NoOptions
    /\ rom = FaxanaduROM

LongEntryAddrs == iter_decode_iscript_addrs(file.body, iscript_addrs_offset, ReusedNameSlot)

\* One turn of the loop of _read_iscripts.
NextLongEntrypoint ==
    /\ pc = "entrypoints"
    /\ stack = <<>>
    /\ ep_i <= ReusedNameSlot
    /\ LET bank_addr == LongEntryAddrs[ep_i]
           name == DEFAULT_ISCRIPT_ORDER[ep_i]
           n == NewScan(heap, reffable_addrs, bank_addr, TRUE, name)
       IN  /\ entrypoints' = Append(entrypoints, name)
           /\ IF bank_addr \in seen_entrypoint_addrs
              THEN /\ ep_i' = ep_i + 1
                   /\ UNCHANGED <<pc, err, heap, reffable_addrs, seen_entrypoint_addrs,
                                  stack, scans>>
              ELSE /\ seen_entrypoint_addrs' = seen_entrypoint_addrs \cup {bank_addr}
                   /\ heap' = n.heap
                   /\ reffable_addrs' = n.reffable
                   /\ scans' = Append(scans, bank_addr)
                   /\ stack' = <<n.frame>>
                   /\ ep_i' = ep_i
                   /\ IF n.ok THEN UNCHANGED <<pc, err>>
                      ELSE ReadFail(Err("off_model", <<bank_addr>>))
    /\ UNCHANGED <<conv, cliVars, jsonVars, patchVars, file, messages, coll, shops>>

\* The table is exhausted: read returns the ROM information.
LongReadDone ==
    /\ pc = "entrypoints"
    /\ stack = <<>>
    /\ ep_i > ReusedNameSlot
    /\ pc' = "decoded"
    /\ UNCHANGED <<conv, cliVars, jsonVars, patchVars, file, err, romVars, readVars>>

NextLong ==
    \/ ReadMessages
    \/ NextLongEntrypoint
    \/ LongReadDone
    \/ ReadAction
    \/ ResolveJump
    \/ CallReadIScript
    \/ ResolveShop
    \/ ReturnNested
    \/ ReturnEntrypoint

SpecLong == InitLong /\ [][NextLong]_vars

(***************************************************************************)
(* encoder.py: ROMEncoder.encode_iscript_action on a show-message action   *)
(* of a graph whose message collection holds up to MaxMessages messages,   *)
(* in the order of their names or in the reverse order.                    *)
(***************************************************************************)
\* The collection of n messages "msg-01".. in the order of their names, or
\* reversed.
MessagesOf(n, reversed) ==
    [i \in 1..n |-> Message(MsgId(IF reversed THEN n + 1 - i ELSE i), <<65>>)]

\* A script that shows message id and ends.
ShowMessageIScript(id) ==
    [IScript(DEFAULT_ISCRIPT_ORDER[1], 128) EXCEPT
        !.code = <<IScriptAction(1, <<MsgVal(id)>>), IScriptAction(0, <<>>)>>]

InitIndex ==
    /\ \E n \in 1..MaxMessages : \E reversed \in BOOLEAN : \E r \in {1, n} :
           /\ messages = MessagesOf(n, reversed)
           /\ heap = <<ShowMessageIScript(MsgId(r))>>
    /\ coll = <<1>>
    /\ entrypoints = <<DEFAULT_ISCRIPT_ORDER[1]>>
    /\ shops = <<>>
    /\ pc = "loaded"
    /\ err = NoErr
    /\ file = [header |-> Header, body |-> EmptyMap]
    /\ reffable_addrs = EmptyMap
    /\ seen_entrypoint_addrs = {}
    /\ ep_i = 1
    /\ stack = <<>>
    /\ scans = <<>>
    /\ json = NoData
    /\ edit = "none"
    /\ orig = NoGraph
    /\ buf = EmptyMap
    /\ lay = NoLayout
    /\ out = NoFile
    /\ conv = NoConv
    /\ options = NoOptions
    /\ rom = FaxanaduROM

\* encode_iscript_action of the show-message action, at the start of the
\* scripts region.
EncodeShowMessage ==
    /\ pc = "loaded"
    /\ lay' = encode_iscript_action(Cur, iscripts_offset, heap[1].code[1], NoLayout)
    /\ pc' = "encoded"
    /\ UNCHANGED <<conv, cliVars, jsonVars, file, err, romVars, readVars, buf, out>>

NextIndex == EncodeShowMessage

SpecIndex == InitIndex /\ [][NextIndex]_vars

(***************************************************************************)
(* cli/main.py: the "dump" and "patch" commands given --script-addrs-offset,*)
(* --messages-offset and --num-scripts, and a caller of the library that   *)
(* builds the ROM information with the same three values and hands it to   *)
(* JSONDeserializer and ROMPatcher.                                        *)
(***************************************************************************)
\* FaxanaduROM() as main builds it: the slot count at its default.
DefaultROM == [FaxanaduROM EXCEPT !.max_iscript_addrs = DefaultMaxIScriptAddrs]

Callers == {"dump", "patch", "library"}

Options ==
    { [action |-> a,
       script_addrs_offset |-> iscript_addrs_offset + i,
       messages_offset |-> messages_offset + j,
       num_scripts |-> DefaultMaxIScriptAddrs + k] :
        a \in Callers, i \in 0..MaxShift, j \in 0..MaxShift,
        k \in (0 - MaxShift)..MaxShift }

\* The payload of the commands: the message "A" and one script, entity and
\* "end", that is the only entrypoint.
CliFile ==
    [header |-> Header,
     body |-> Image([i \in 1..max_iscript_addrs |-> 0], <<128, 0>>, <<65, 255>>)]

InitCli ==
    /\ file = CliFile
    /\ pc = "main"
    /\ err = NoErr
    /\ messages = <<>>
    /\ heap = <<>>
    /\ coll = <<>>
    /\ entrypoints = <<>>
    /\ shops = <<>>
    /\ reffable_addrs = EmptyMap
    /\ seen_entrypoint_addrs = {}
    /\ ep_i = 1
    /\ stack = <<>>
    /\ scans = <<>>
    /\ json = NoData
    /\ edit = "none"
    /\ orig = NoGraph
    /\ buf = EmptyMap
    /\ lay = NoLayout
    /\ out = NoFile
    /\ conv = NoConv
    /\ options \in Options
    /\ rom = DefaultROM

cliFrame == <<conv, file, err, romVars, readVars, jsonVars, lay, out, options>>

\* The three fields the caller sets; iscripts_offset keeps the value it
\* was given when the class was defined.
Configured(r, o) ==
    [r EXCEPT !.messages_offset = o.messages_offset,
              !.iscript_addrs_offset = o.script_addrs_offset,
              !.max_iscript_addrs = o.num_scripts]

\* update_rom_information, the first call of both command handlers.
update_rom_information ==
    /\ pc = "main"
    /\ options.action \in {"dump", "patch"}
    /\ rom' = Configured(rom, options)
    /\ pc' = "configured"
    /\ UNCHANGED <<cliFrame, buf>>

\* FaxanaduROM(messages_offset=..., iscript_addrs_offset=...,
\* max_iscript_addrs=...) by a caller of the library.
ConstructROM ==
    /\ pc = "main"
    /\ options.action = "library"
    /\ rom' = Configured(FaxanaduROM, options)
    /\ pc' = "configured"
    /\ UNCHANGED <<cliFrame, buf>>

\* handle_dump_command after update_rom_information: the reader and the
\* serializer are given the configured ROM information.
handle_dump_command ==
    /\ pc = "configured"
    /\ options.action = "dump"
    /\ pc' = "dumped"
    /\ UNCHANGED <<cliFrame, buf, rom>>

\* JSONDeserializer(json.load(fp)).deserialize() in handle_patch_command:
\* no rom is handed over, the graph is built on a fresh FaxanaduROM() and
\* the name rom is bound to it.
DeserializeWithoutROM ==
    /\ pc = "configured"
    /\ options.action = "patch"
    /\ rom' = DefaultROM
    /\ pc' = "cli_loaded"
    /\ UNCHANGED <<cliFrame, buf>>

\* JSONDeserializer(data, rom=rom).deserialize() by a caller of the library.
DeserializeWithROM ==
    /\ pc = "configured"
    /\ options.action = "library"
    /\ pc' = "cli_loaded"
    /\ UNCHANGED <<cliFrame, buf, rom>>

\* The offsets _patch_messages, _patch_iscript_entrypoints and
\* _patch_iscripts write from, each with the length it writes.
MessagesAt(r) == r.messages_offset..(r.messages_offset + 1)

TableAt(r) == r.iscript_addrs_offset..(r.iscript_addrs_offset + 2 * r.max_iscript_addrs - 1)

RegionAt(r) == r.iscripts_offset..(r.iscripts_offset + r.max_iscripts_len - 1)

\* What ROMPatcher(rom=r).patch writes for the payload: the message, the
\* region padded with zero bytes, then the table of r.max_iscript_addrs
\* low bytes and as many high bytes, the first slot holding the address
\* of the script.
Written(r) ==
    LET ep  == write_value(get_bank_addr_for(r.iscripts_offset), 2)
        pad == Zeros(r.max_iscript_addrs - 1)
        b1  == WriteAt(EmptyMap, r.messages_offset, <<65, 255>>)
        b2  == WriteAt(b1, r.iscripts_offset, PadTo(<<128, 0>>, r.max_iscripts_len))
    IN  WriteAt(b2, r.iscript_addrs_offset, <<ep[1]>> \o pad \o <<ep[2]>> \o pad)

\* ROMPatcher(rom=rom).patch.
PatchWithROM ==
    /\ pc = "cli_loaded"
    /\ buf' = Written(rom)
    /\ pc' = "cli_patched"
    /\ UNCHANGED <<cliFrame, rom>>

NextCli ==
    \/ update_rom_information
    \/ ConstructROM
    \/ handle_dump_command
    \/ DeserializeWithoutROM
    \/ DeserializeWithROM
    \/ PatchWithROM

SpecCli == InitCli /\ [][NextCli]_vars


(***************************************************************************)
(* Measures of a graph, taken from the graph alone: how many bytes each    *)
(* script and shop occupies and where each one starts when the scripts     *)
(* are written back to back from iscripts_offset in collection order and   *)
(* the shops behind them in name order.                                    *)
(***************************************************************************)
\* A label takes no byte; an action takes its opcode byte and the width of
\* each parameter it holds.
SegmentSize(seg) ==
    IF seg.kind = "label" THEN 0
    ELSE 1 + SumSeq([j \in DOMAIN seg.params |->
                        ACTION_TYPES[seg.action_id].params[j].size])

EntitySize(iscript) == IF iscript.entity # None THEN 1 ELSE 0

IScriptSize(iscript) ==
    EntitySize(iscript) + SumSeq([c \in DOMAIN iscript.code |-> SegmentSize(iscript.code[c])])

\* Where the k-th script of the collection starts.
IScriptStart(g, k) ==
    iscripts_offset + SumSeq([j \in 1..(k - 1) |-> IScriptSize(g.heap[g.coll[j]])])

\* Where code segment c of the k-th script starts; for a label, the first
\* byte of the action behind it.
SegmentStart(g, k, c) ==
    LET iscript == g.heap[g.coll[k]]
    IN  IScriptStart(g, k) + EntitySize(iscript) +
        SumSeq([j \in 1..(c - 1) |-> SegmentSize(iscript.code[j])])

\* The positions of the collection whose script carries a name.
NamedIScripts(g, name) == {k \in DOMAIN g.coll : g.heap[g.coll[k]].name = name}

\* The position in the collection of the script at heap position sid.
CollIndex(g, sid) == CHOOSE k \in DOMAIN g.coll : g.coll[k] = sid

ShopSize(shop) == 3 * Len(shop.items) + 1

ShopsStart(g) == IScriptStart(g, Len(g.coll) + 1)

\* Where the i-th shop in name order starts.
ShopStart(g, i) ==
    ShopsStart(g) + SumSeq([j \in 1..(i - 1) |-> ShopSize(SortShops(g.shops)[j])])

TotalSize(g) == ShopStart(g, Len(g.shops) + 1) - iscripts_offset

\* The parameters that hold a reference to a script or label: <<k, c, j>>
\* is parameter j of code segment c of the k-th script.
RefParams(g) ==
    UNION { UNION { { <<k, c, j>> :
                        j \in { j \in DOMAIN g.heap[g.coll[k]].code[c].params :
                                  g.heap[g.coll[k]].code[c].params[j].tag = "ref" } } :
                    c \in DOMAIN g.heap[g.coll[k]].code } :
            k \in DOMAIN g.coll }

RefParam(g, p) == g.heap[g.coll[p[1]]].code[p[2]].params[p[3]]

\* Where the operand of parameter p lies.
ParamOffset(g, p) ==
    ParamPos(ACTION_TYPES[g.heap[g.coll[p[1]]].code[p[2]].action_id],
             SegmentStart(g, p[1], p[2]), p[3])

\* The 16-bit operand the patched file holds at an offset.
Operand(offset) == read_value_at(out.body, offset, 2)

\* Slot i of the entrypoint table of the patched file.
TableSlot(i) ==
    build_addr(out.body[iscript_addrs_offset + max_iscript_addrs + i - 1],
               out.body[iscript_addrs_offset + i - 1])

\* The file was decoded and patched with nothing in between.
DirectPatched == pc = "patched" /\ json = NoData

\* An image whose scripts and shops lie where a rewrite puts them: every
\* script was read at the offset it is written back to, and every shop too.
CanonicalLayout ==
    /\ \A k \in DOMAIN coll :
           get_rom_offset_for(Bank, scans[coll[k]]) = IScriptStart(Cur, k)
    /\ \A i \in DOMAIN shops :
           SortShops(shops)[i].name = Hex(get_bank_addr_for(ShopStart(Cur, i)))

(***************************************************************************)
(* C1  Decode/encode round-trip.                                           *)
(***************************************************************************)
\* C1: decoding an image whose scripts and shops lie in canonical layout
\* and patching it at once reproduces the message region, and the
\* scripts/shops region up to the bytes written, which zero bytes follow.
C1_RoundTrip ==
    (DirectPatched /\ CanonicalLayout) =>
        /\ \A o \in messages_offset..(messages_offset + max_messages_len - 1) :
               out.body[o] = file.body[o]
        /\ \A o \in iscripts_offset..(iscripts_offset + max_iscripts_len - 1) :
               out.body[o] = IF o < iscripts_offset + TotalSize(Cur)
                             THEN file.body[o] ELSE 0

(***************************************************************************)
(* C2  Forward jump patch.                                                 *)
(***************************************************************************)
\* C2: after a successful patch the operand of every reference to a whole
\* script holds the bank address at which that script starts, and no
\* recorded patch position still holds the 0xFFFF placeholder.
C2_ForwardJumpPatch ==
    pc = "patched" =>
        /\ \A p \in RefParams(Cur) :
               RefParam(Cur, p).l = 0 =>
                   Operand(ParamOffset(Cur, p)) =
                       get_bank_addr_for(
                           IScriptStart(Cur, CollIndex(Cur, RefParam(Cur, p).n)))
        /\ \A a \in (DOMAIN lay.iscript_refs) \cup (DOMAIN lay.shop_refs) :
               Operand(a) # 65535

(***************************************************************************)
(* C3  Label offsets.                                                      *)
(***************************************************************************)
\* The labels of a graph: <<k, c>> is code segment c of the k-th script.
Labels(g) ==
    UNION { { <<k, c>> : c \in { c \in DOMAIN g.heap[g.coll[k]].code :
                                  g.heap[g.coll[k]].code[c].kind = "label" } } :
            k \in DOMAIN g.coll }

LabelName(g, l) == g.heap[g.coll[l[1]]].code[l[2]].name

\* No other label and no script of the graph carries the label's name.
OnlyTargetNamed(g, l) ==
    /\ NamedIScripts(g, LabelName(g, l)) = {}
    /\ \A m \in Labels(g) : LabelName(g, m) = LabelName(g, l) => m = l

\* C3: after a successful patch the offset recorded under the name of a
\* label is that of the first byte of the action behind the label, and the
\* operand of every reference to a label holds the bank address of that
\* byte.
C3_LabelOffsets ==
    pc = "patched" =>
        /\ \A l \in Labels(Cur) :
               OnlyTargetNamed(Cur, l) =>
                   lay.iscript_rom_offsets[LabelName(Cur, l)] =
                       SegmentStart(Cur, l[1], l[2])
        /\ \A p \in RefParams(Cur) :
               RefParam(Cur, p).l # 0 =>
                   Operand(ParamOffset(Cur, p)) =
                       get_bank_addr_for(
                           SegmentStart(Cur, CollIndex(Cur, RefParam(Cur, p).n),
                                        RefParam(Cur, p).l))

(***************************************************************************)
(* C4  Entrypoint table order.                                             *)
(***************************************************************************)
\* C4: after a successful patch slot i of the table holds the bank address
\* at which the script named entrypoints[i] starts, and every slot behind
\* the entrypoint list holds zero.
C4_EntrypointTableOrder ==
    pc = "patched" =>
        \A i \in 1..max_iscript_addrs :
            IF i > Len(entrypoints) THEN TableSlot(i) = 0
            ELSE \A k \in NamedIScripts(Cur, entrypoints[i]) :
                     TableSlot(i) = get_bank_addr_for(IScriptStart(Cur, k))

(***************************************************************************)
(* C5  Textual round-trip.                                                 *)
(***************************************************************************)
\* C5: the payload serialized from a decoded graph deserializes without an
\* error, and the graph it gives is patched to the same file as the
\* decoded graph is.
C5_TextualRoundTrip ==
    edit = "none" =>
        /\ pc # "deserialize_failed"
        /\ pc = "loaded" => patch(Cur, file).out = patch(orig, file).out

(***************************************************************************)
(* C6  Shared-target dedup.                                                *)
(***************************************************************************)
\* The scripts that were read at an address.
ScannedAt(bank_addr) == {sid \in DOMAIN scans : scans[sid] = bank_addr}

\* C6: when two positions of the entrypoint table hold one address, one
\* script is read at that address and the entrypoint list holds that
\* script's name at both positions.
C6_SharedTargetDedup ==
    (pc = "decoded") =>
        \A i, j \in 1..max_iscript_addrs :
            (i # j /\ EntryAddrs[i] = EntryAddrs[j]) =>
                /\ Cardinality(ScannedAt(EntryAddrs[i])) = 1
                /\ \A sid \in ScannedAt(EntryAddrs[i]) :
                       /\ entrypoints[i] = heap[sid].name
                       /\ entrypoints[j] = heap[sid].name

(***************************************************************************)
(* The message codec by itself: decode_messages on one byte run, then      *)
(* encode_messages on what it returned.  The run is put together from      *)
(* MaxPieces pieces at most.                                               *)
(***************************************************************************)
Pieces ==
    { <<65>>, <<0>>, <<32>>, <<10>>, <<60>>, <<62>>, <<128>>,
      <<251>>, <<252>>, <<253>>, <<254>>, TitleStr, PauseStr }

RECURSIVE Runs(_)
Runs(n) ==
    IF n = 0 THEN { <<>> }
    ELSE Runs(n - 1) \cup { r \o p : r \in Runs(n - 1), p \in Pieces }

\* A file that holds one run, its 0xFF and the 0 that ends the table.
MsgFile(run) ==
    [header |-> Header,
     body |-> [o \in messages_offset..(messages_offset + Len(run) + 1) |->
                  (run \o <<255, 0>>)[o - messages_offset + 1]]]

InitMsg ==
    /\ file \in { MsgFile(run) : run \in Runs(MaxPieces) }
    /\ pc = "start"
    /\ err = NoErr
    /\ messages = <<>>
    /\ heap = <<>>
    /\ coll = <<>>
    /\ entrypoints = <<>>
    /\ shops = <<>>
    /\ reffable_addrs = EmptyMap
    /\ seen_entrypoint_addrs = {}
    /\ ep_i = 1
    /\ stack = <<>>
    /\ scans = <<>>
    /\ json = NoData
    /\ edit = "none"
    /\ orig = NoGraph
    /\ buf = EmptyMap
    /\ lay = NoLayout
    /\ out = NoFile
    /\ conv = NoConv
    /\ options = NoOptions
    /\ rom = FaxanaduROM

\* decode_messages at messages_offset.
DecodeMessages ==
    /\ pc = "start"
    /\ LET r == decode_messages(file.body, messages_offset)
       IN  /\ messages' = r.messages
           /\ pc' = IF r.status = "ok" THEN "messages_decoded" ELSE "messages_rejected"
           /\ err' = IF r.status = "ok" THEN NoErr ELSE Err(r.status, <<>>)
    /\ UNCHANGED <<conv, cliVars, file, heap, coll, entrypoints, shops, readVars, jsonVars, patchVars>>

\* encode_messages into an empty buffer.
EncodeMessages ==
    /\ pc = "messages_decoded"
    /\ CanEncodeMessages(messages)
    /\ buf' = encode_messages(messages)
    /\ pc' = "messages_encoded"
    /\ UNCHANGED <<conv, cliVars, file, err, romVars, readVars, jsonVars, lay, out>>

NextMsg ==
    \/ DecodeMessages
    \/ EncodeMessages

SpecMsg == InitMsg /\ [][NextMsg]_vars

\* The run of the file: the bytes in front of the first 0xFF.
MsgRun == ReadRun(file.body, messages_offset).buf

\* The run was decoded to one message and that message was encoded.
RunEncoded == pc = "messages_encoded" /\ Len(messages) = 1

Occurs(sub, s) ==
    \E i \in 1..(Len(s) - Len(sub) + 1) : SubSeq(s, i, i + Len(sub) - 1) = sub

\* A run without a raw space, a raw newline or a raw spelling of a marker.
CleanRun(run) ==
    /\ ~Occurs(<<32>>, run)
    /\ ~Occurs(<<10>>, run)
    /\ ~Occurs(TitleStr, run)
    /\ ~Occurs(PauseStr, run)

\* 0xFB..0xFE decode to the two markers, the space and the newline and are
\* encoded back; "AB", 0xFD, "C", 0xFE is "AB C\n" and is encoded back.
TokensRoundTrip ==
    /\ DecodeChar(251) = TitleStr /\ EncodeString(TitleStr) = <<251>>
    /\ DecodeChar(252) = PauseStr /\ EncodeString(PauseStr) = <<252>>
    /\ DecodeChar(253) = <<32>> /\ EncodeString(<<32>>) = <<253>>
    /\ DecodeChar(254) = <<10>> /\ EncodeString(<<10>>) = <<254>>
    /\ DecodeRun(<<65, 66, 253, 67, 254>>) = <<65, 66, 32, 67, 10>>
    /\ EncodeString(<<65, 66, 32, 67, 10>>) = <<65, 66, 253, 67, 254>>

(***************************************************************************)
(* C7  Message token round-trip.                                           *)
(***************************************************************************)
\* C7 as stated: the bytes encoded for the message decoded from a run are
\* the run and 0xFF, for every run that was accepted.
C7_AnyRunRoundTrip ==
    RunEncoded => (buf = MsgRun \o <<255>> /\ TokensRoundTrip)

\* C7 on the runs the codec does reproduce: the bytes encoded for the
\* message decoded from a run are the run and 0xFF, for every accepted run
\* that holds no raw space, no raw newline and no raw spelling of a marker.
C7_CleanRunRoundTrip ==
    (RunEncoded /\ CleanRun(MsgRun)) => (buf = MsgRun \o <<255>> /\ TokensRoundTrip)

\* A clean run with a token and a letter has been encoded.
C7_Witness ==
    RunEncoded /\ CleanRun(MsgRun) /\ Occurs(<<253>>, MsgRun) /\ Occurs(<<65>>, MsgRun)

(***************************************************************************)
(* C8  Capacity enforcement.                                               *)
(***************************************************************************)
\* The number of bytes the messages of a graph are encoded to.
EncodedMessagesLen(g) ==
    SumSeq([i \in DOMAIN g.messages |-> Len(EncodeString(g.messages[i].string)) + 1])

PatchEnded == pc \in {"patched", "patch_failed"}

CapacityError(limit, actual) ==
    pc = "patch_failed" /\ err = Err("ROMPatchError", <<limit, actual>>)

\* C8: a patch whose messages are encoded to more than max_messages_len
\* bytes, whose scripts and shops take more than max_iscripts_len bytes or
\* whose entrypoint list is longer than max_iscript_addrs ends in a
\* ROMPatchError that holds the limit and the actual number; a patch in
\* which none of the three is above its limit succeeds.
C8_CapacityEnforcement ==
    PatchEnded =>
        LET data_len == EncodedMessagesLen(Cur)
            total_bytes == TotalSize(Cur)
            num_entrypoints == Len(entrypoints)
        IN  IF data_len > max_messages_len
            THEN CapacityError(max_messages_len, data_len)
            ELSE IF total_bytes > max_iscripts_len
            THEN CapacityError(max_iscripts_len, total_bytes)
            ELSE IF num_entrypoints > max_iscript_addrs
            THEN CapacityError(max_iscript_addrs, num_entrypoints)
            ELSE pc = "patched"

\* A patch has failed on scripts and shops that are too large.
C8_Witness ==
    /\ CapacityError(max_iscripts_len, TotalSize(Cur))
    /\ TotalSize(Cur) > max_iscripts_len

\* A patch has succeeded with messages of exactly max_messages_len bytes.
C8_AtLimit ==
    pc = "patched" /\ EncodedMessagesLen(Cur) = max_messages_len

(***************************************************************************)
(* C9  No partial output.                                                  *)
(***************************************************************************)
\* C9: the output file is written only by a patch that has ended, with
\* every one of its steps done without an error, and it then holds the
\* result of those steps; a patch that failed has written no file.
C9_NoPartialOutput ==
    /\ out.written <=> pc = "patched"
    /\ out.written =>
           /\ patch(Cur, file).err = NoErr
           /\ out = patch(Cur, file).out
    /\ pc = "patch_failed" => out = NoFile

\* A patch has failed after it changed its buffer, and no file is written.
C9_Witness ==
    pc = "patch_failed" /\ buf # file.body /\ out = NoFile

(***************************************************************************)
(* C10  Frame of patch.                                                    *)
(***************************************************************************)
\* The offsets a patch of the graph rewrites.
Rewritten(g) ==
    (messages_offset..(messages_offset + EncodedMessagesLen(g) - 1))
    \cup (iscript_addrs_offset..(iscript_addrs_offset + 2 * max_iscript_addrs - 1))
    \cup (iscripts_offset..(iscripts_offset + max_iscripts_len - 1))

\* C10: the file a patch has written holds the bytes of the original file
\* at every offset outside the encoded messages, the entrypoint table and
\* the scripts/shops region; it has the original's header and length.
C10_FrameOfPatch ==
    pc = "patched" =>
        /\ DOMAIN out.body = DOMAIN file.body
        /\ \A o \in (DOMAIN file.body) \ Rewritten(Cur) : out.body[o] = file.body[o]
        /\ Len(file.header) = HeaderLen
        /\ out.header = file.header

\* A patch has written a file that differs from the original.
C10_Witness ==
    /\ pc = "patched"
    /\ \E o \in Rewritten(Cur) : out.body[o] # file.body[o]
    /\ \E o \in (DOMAIN file.body) \ Rewritten(Cur) : file.body[o] # 0

(***************************************************************************)
(* C11  Exact region fill.                                                 *)
(***************************************************************************)
\* The end of the scripts/shops region: the first offset behind it.
RegionEnd == iscripts_offset + max_iscripts_len

\* The bytes the patched file holds from an offset on.
OutBytes(offset, n) == [i \in 1..n |-> out.body[offset + i - 1]]

\* The bytes of a shop: three per item, then 0xFF.
ShopBytes(shop) ==
    Concat([i \in DOMAIN shop.items |->
               <<shop.items[i].item, shop.items[i].price % 256,
                 shop.items[i].price \div 256>>]) \o <<255>>

\* C11: after a successful patch the region holds every script of the
\* collection in collection order (its entity byte, then the opcode of each
\* action where the sizes of what lies in front put it), behind them every
\* shop, and zero bytes from there to the end of the region; the byte behind
\* the region is the original's; the total checked against the limit is
\* the number of bytes written from the region's start.
C11_ExactRegionFill ==
    pc = "patched" =>
        /\ \A k \in DOMAIN coll :
               /\ heap[coll[k]].entity # None =>
                      out.body[IScriptStart(Cur, k)] = heap[coll[k]].entity
               /\ \A c \in DOMAIN heap[coll[k]].code :
                      heap[coll[k]].code[c].kind = "action" =>
                          out.body[SegmentStart(Cur, k, c)] =
                              heap[coll[k]].code[c].action_id
        /\ \A i \in DOMAIN shops :
               OutBytes(ShopStart(Cur, i), ShopSize(SortShops(shops)[i])) =
                   ShopBytes(SortShops(shops)[i])
        /\ \A o \in (iscripts_offset + TotalSize(Cur))..(RegionEnd - 1) : out.body[o] = 0
        /\ out.body[RegionEnd] = file.body[RegionEnd]
        /\ lay.total_bytes = TotalSize(Cur)
        /\ lay.total_bytes = Len(lay.bytes)
        /\ TotalSize(Cur) <= max_iscripts_len

\* A patch has written two scripts and a shop into less than the region,
\* over a region that held other bytes behind them.
C11_Witness ==
    /\ pc = "patched"
    /\ Len(coll) >= 2
    /\ Len(shops) >= 1
    /\ TotalSize(Cur) < max_iscripts_len
    /\ \E o \in (iscripts_offset + TotalSize(Cur))..(RegionEnd - 1) : file.body[o] # 0

(***************************************************************************)
(* C12  Unknown opcode.                                                    *)
(***************************************************************************)
\* The read ended on a byte that is no action ID.
UnknownOpcode == pc = "read_failed" /\ err.kind = "ValueError"

\* The offset and the byte read_iscript_action failed on.
FailedPos == Top.pos

Reports(e, value) == \E i \in DOMAIN e.info : e.info[i] = value

\* C12: a read that meets a byte outside the action table ends in an error
\* that holds the byte and the address it was read at, and that read never
\* returns the ROM information.
C12_UnknownOpcode ==
    /\ [](UnknownOpcode =>
             /\ file.body[FailedPos] \notin ActionIds
             /\ Reports(err, file.body[FailedPos])
             /\ Reports(err, get_bank_addr_for(FailedPos)))
    /\ [][UnknownOpcode => pc' = "read_failed"]_vars

(***************************************************************************)
(* The address helpers by themselves: an offset of the image is taken      *)
(* apart by get_bank_for and get_bank_addr_for and put together again by   *)
(* get_rom_offset_for.                                                     *)
(***************************************************************************)
InitAddr ==
    /\ conv \in { [NoConv EXCEPT !.rom_addr = o] : o \in 0..MaxRomAddr }
    /\ options = NoOptions
    /\ rom = FaxanaduROM
    /\ pc = "start"
    /\ file = [header |-> Header, body |-> EmptyMap]
    /\ err = NoErr
    /\ messages = <<>>
    /\ heap = <<>>
    /\ coll = <<>>
    /\ entrypoints = <<>>
    /\ shops = <<>>
    /\ reffable_addrs = EmptyMap
    /\ seen_entrypoint_addrs = {}
    /\ ep_i = 1
    /\ stack = <<>>
    /\ scans = <<>>
    /\ json = NoData
    /\ edit = "none"
    /\ orig = NoGraph
    /\ buf = EmptyMap
    /\ lay = NoLayout
    /\ out = NoFile

\* get_bank_for and get_bank_addr_for on the offset.
SplitAddress ==
    /\ pc = "start"
    /\ conv' = [conv EXCEPT !.bank = get_bank_for(conv.rom_addr),
                            !.addr = get_bank_addr_for(conv.rom_addr)]
    /\ pc' = "split"
    /\ UNCHANGED <<file, err, romVars, readVars, jsonVars, patchVars, cliVars>>

\* get_rom_offset_for on the bank and the address.
JoinAddress ==
    /\ pc = "split"
    /\ conv' = [conv EXCEPT !.offset = get_rom_offset_for(conv.bank, conv.addr)]
    /\ pc' = "joined"
    /\ UNCHANGED <<file, err, romVars, readVars, jsonVars, patchVars, cliVars>>

NextAddr ==
    \/ SplitAddress
    \/ JoinAddress

SpecAddr == InitAddr /\ [][NextAddr]_vars

(***************************************************************************)
(* C13  Address round-trip.                                                *)
(***************************************************************************)
\* C13: for every offset o of the image, get_rom_offset_for of
\* get_bank_for(o) and get_bank_addr_for(o) is o.
C13_AddressRoundTrip ==
    pc = "joined" => conv.offset = conv.rom_addr

\* An offset outside the first 64 KB, where the bank is not 0, has gone
\* through both directions.
C13_Witness ==
    /\ pc = "joined"
    /\ conv.rom_addr = iscripts_offset
    /\ conv.bank = 12
    /\ conv.addr = RegionBase

(***************************************************************************)
(* C14  Reference counting.                                                *)
(***************************************************************************)
\* The parameters of the scripts created so far that hold a reference to
\* script sid (l = 0) or to its label at code position l.
RefsTo(h, sid, l) ==
    UNION { UNION { { <<s, c, j>> :
                        j \in { j \in DOMAIN h[s].code[c].params :
                                  h[s].code[c].params[j] = IScriptTargetRef(sid, l) } } :
                    c \in DOMAIN h[s].code } :
            s \in DOMAIN h }

\* Every counter holds the number of references to its script or label.
RefCountsExact(h) ==
    \A sid \in DOMAIN h :
        /\ h[sid].ref_count = Cardinality(RefsTo(h, sid, 0))
        /\ \A l \in DOMAIN h[sid].code :
               h[sid].code[l].kind = "label" =>
                   h[sid].code[l].ref_count = Cardinality(RefsTo(h, sid, l))

\* The graph is under construction or was constructed.
Constructing == pc \in {"entrypoints", "read_failed", "decoded", "serialized", "edited",
                        "loaded"}

\* C14: while a graph is constructed and afterwards, the ref_count of every
\* script and label is the number of references constructed so far that
\* target it; no step of a decode lowers a counter; in a constructed graph
\* every script is in the collection, so that the counts are those of the
\* jump-target parameters of the graph.
C14_ReferenceCounting ==
    /\ [](Constructing => RefCountsExact(heap))
    /\ [](pc \in {"decoded", "loaded"} =>
             \A sid \in DOMAIN heap : \E k \in DOMAIN coll : coll[k] = sid)
    /\ [][pc = "entrypoints" =>
             \A sid \in DOMAIN heap :
                 /\ heap'[sid].ref_count >= heap[sid].ref_count
                 /\ \A l \in DOMAIN heap[sid].code :
                        heap'[sid].code[l].ref_count >= heap[sid].code[l].ref_count]_vars

\* A payload was loaded into a graph in which a script and a label are
\* referenced once each.
C14_Witness ==
    /\ pc = "loaded"
    /\ \E sid \in DOMAIN heap : heap[sid].ref_count = 1
    /\ \E sid \in DOMAIN heap : \E l \in DOMAIN heap[sid].code :
           heap[sid].code[l].kind = "label" /\ heap[sid].code[l].ref_count = 1

(***************************************************************************)
(* C15  Zero-reference label elision.                                      *)
(***************************************************************************)
\* Whether segment c of a code list stays when the labels nothing
\* references are removed, and the position it then has.
StaysInCode(code, c) == code[c].kind = "action" \/ code[c].ref_count > 0

PositionInStripped(code, c) == Cardinality({d \in 1..c : StaysInCode(code, d)})

\* A segment with its references moved to the positions of the labels in
\* the stripped code.
Restated(h, seg) ==
    [seg EXCEPT !.params =
        [j \in DOMAIN seg.params |->
            IF seg.params[j].tag = "ref" /\ seg.params[j].l # 0
            THEN IScriptTargetRef(seg.params[j].n,
                     PositionInStripped(h[seg.params[j].n].code, seg.params[j].l))
            ELSE seg.params[j]]]

RECURSIVE StrippedCode(_, _, _)
StrippedCode(h, code, c) ==
    IF c > Len(code) THEN <<>>
    ELSE (IF StaysInCode(code, c) THEN <<Restated(h, code[c])>> ELSE <<>>)
         \o StrippedCode(h, code, c + 1)

\* The graph without its labels of ref_count 0.
WithoutUnreferencedLabels(g) ==
    [g EXCEPT !.heap = [sid \in DOMAIN g.heap |->
                           [g.heap[sid] EXCEPT !.code = StrippedCode(g.heap, @, 1)]]]

\* The names of the labels of a serialized code list, in order.
SerializedLabels(code) ==
    LET ls == SelectSeq(code, LAMBDA seg : seg.kind = "label")
    IN  [i \in DOMAIN ls |-> ls[i].label]

ReferencedLabels(code) ==
    LET ls == SelectSeq(code, LAMBDA seg : seg.kind = "label" /\ seg.ref_count > 0)
    IN  [i \in DOMAIN ls |-> ls[i].name]

\* C15: the payload serialized from a decoded graph holds, for every
\* script, the labels whose ref_count is above 0 and no other; and the
\* decoded graph is patched to the same file with and without its labels of
\* ref_count 0.
C15_ZeroRefLabelElision ==
    /\ pc = "serialized" =>
           \A k \in DOMAIN coll :
               SerializedLabels(json.iscripts[k].code) =
                   ReferencedLabels(heap[coll[k]].code)
    /\ pc = "decoded" =>
           patch(WithoutUnreferencedLabels(Cur), file) = patch(Cur, file)

(***************************************************************************)
(* C16  Collections enforce name uniqueness.                               *)
(***************************************************************************)
\* The names of a sequence of named entities differ from each other.
DistinctNames(names) == \A i, j \in DOMAIN names : i # j => names[i] # names[j]

\* The graph holds scripts, messages and shops, whether complete or not.
HoldsGraph == pc \notin {"start", "read_failed", "deserialize_failed"}

\* C16: the scripts of the collection, the messages and the shops carry
\* names that differ from each other; a payload with a script under a name
\* that is taken is not loaded; and a step of a decode that adds a shop
\* under a name the shops hold already ends the decode in an error.
C16_NameUniqueness ==
    /\ [](HoldsGraph =>
             /\ DistinctNames([k \in DOMAIN coll |-> heap[coll[k]].name])
             /\ DistinctNames([i \in DOMAIN messages |-> messages[i].message_id])
             /\ DistinctNames([i \in DOMAIN shops |-> shops[i].name]))
    /\ [](edit = "repeat_iscript" => pc \in {"edited", "deserialize_failed"})
    /\ [][(pc = "entrypoints" /\ stack # <<>> /\ Len(stack') = Len(stack)) =>
             \A p \in Top.store_items_queues \ stack'[Len(stack)].store_items_queues :
                 HasShop(shops, Hex(ParamAt(Top.iscript, p).n)) =>
                     pc' = "read_failed"]_vars

(***************************************************************************)
(* C17  Unresolvable names are fatal.                                      *)
(***************************************************************************)
\* The payload names something that no collection holds.
NamesUnknown ==
    edit \in {"unknown_target", "unknown_shop", "unknown_message", "unknown_entrypoint"}

\* C17: a payload in which a jump target, a shop parameter, a message
\* parameter or an entry of the entrypoint list is a name that no script,
\* label, shop or message carries is not patched into a file: loading it or
\* the patch of what was loaded fails.
C17_UnresolvableNames ==
    NamesUnknown =>
        /\ ~out.written
        /\ pc \in {"edited", "deserialize_failed", "loaded", "patch_iscripts", "patch_refs",
                   "patch_entrypoints", "patch_failed"}
        /\ edit # "unknown_entrypoint" => pc \in {"edited", "deserialize_failed"}

(***************************************************************************)
(* C18  Decode termination on cyclic control flow.                         *)
(***************************************************************************)
\* read has returned or raised.
ReadEnded == pc \notin {"start", "entrypoints"}

\* The scripts read by a nested _read_iscript call, for a jump: the ones
\* without an entity.
NestedScans == {sid \in DOMAIN heap : heap[sid].entity = None}

RegisteredAddrs == DOMAIN reffable_addrs

\* C18: every read ends; whenever a call of _read_iscript is active the
\* address it started at is registered; the nested calls started at
\* addresses that differ from each other; and neither their number nor
\* the depth of the calls is above the number of addresses registered.
C18_DecodeTermination ==
    /\ <>ReadEnded
    /\ [](\A i \in DOMAIN stack : stack[i].bank_addr \in RegisteredAddrs)
    /\ [](pc \in {"entrypoints", "decoded"} =>
             /\ \A s, t \in NestedScans : s # t => scans[s] # scans[t]
             /\ Cardinality(NestedScans) <= Cardinality(RegisteredAddrs)
             /\ Len(stack) <= Cardinality(RegisteredAddrs))

\* Script s holds a reference to script t or to one of its labels.
JumpsTo(h, s, t) ==
    \E c \in DOMAIN h[s].code : \E j \in DOMAIN h[s].code[c].params :
        h[s].code[c].params[j].tag = "ref" /\ h[s].code[c].params[j].n = t

\* A read has ended on two scripts that jump to each other, one of them
\* read by a nested call.
C18_Witness ==
    /\ pc = "decoded"
    /\ \E s \in DOMAIN heap : \E t \in NestedScans :
           s # t /\ JumpsTo(heap, s, t) /\ JumpsTo(heap, t, s)

(***************************************************************************)
(* C19  Label insertion condition.                                         *)
(***************************************************************************)
\* The step appends a label to the code of the script being scanned.
InsertsLabel ==
    /\ pc = "entrypoints"
    /\ stack # <<>>
    /\ Top.scanning
    /\ Len(heap'[Top.iscript].code) > Len(heap[Top.iscript].code)
    /\ heap'[Top.iscript].code[Len(heap[Top.iscript].code) + 1].kind = "label"

\* C19: a step of the action scan inserts a label only at an address that
\* is not the start of its script and is not registered; and an address
\* that is registered stays registered to the script and label it has.
C19_LabelInsertion ==
    /\ [][InsertsLabel =>
             /\ get_bank_addr_for(Top.pos) # Top.bank_addr
             /\ get_bank_addr_for(Top.pos) \notin RegisteredAddrs]_vars
    /\ [][\A a \in RegisteredAddrs :
             a \in DOMAIN reffable_addrs' /\ reffable_addrs'[a] = reffable_addrs[a]]_vars


(***************************************************************************)
(* C20  No re-scan of visited addresses.                                   *)
(***************************************************************************)
\* The step is a turn of the loop of _read_iscripts that calls
\* _read_iscript for the entrypoint address.
StartsEntrypointScan ==
    /\ pc = "entrypoints"
    /\ stack = <<>>
    /\ Len(scans') = Len(scans) + 1

\* C20: within one read no two script scans start at the same address, and
\* a scan for an entrypoint starts only at an address that is neither an
\* earlier entrypoint nor registered as a script start or as a label of a
\* script scanned before.
C20_NoRescan ==
    /\ [](\A s, t \in DOMAIN scans : s # t => scans[s] # scans[t])
    /\ [][StartsEntrypointScan =>
             /\ EntryAddrs[ep_i] \notin seen_entrypoint_addrs
             /\ EntryAddrs[ep_i] \notin RegisteredAddrs]_vars


(***************************************************************************)
(* C21  Unique target names after decode.                                  *)
(***************************************************************************)
\* The number of jump targets of a graph: its scripts and its labels.
NumTargets(g) == Len(g.coll) + Cardinality(Labels(g))

\* C21: after a successful decode no two scripts, no two labels and no
\* script and label carry the same name; and when the decoded graph is
\* patched at once, the table of offsets by name that the layout fills
\* holds one entry for every script and label, none of them overwritten.
C21_UniqueTargetNames ==
    /\ pc = "decoded" =>
           /\ DistinctNames([k \in DOMAIN coll |-> heap[coll[k]].name])
           /\ \A l \in Labels(Cur) : OnlyTargetNamed(Cur, l)
    /\ DirectPatched =>
           Cardinality(DOMAIN lay.iscript_rom_offsets) = NumTargets(Cur)


(***************************************************************************)
(* C22  Re-used entrypoint name at a different address.                    *)
(***************************************************************************)
\* The name DEFAULT_ISCRIPT_ORDER holds at its first and at its 31st
\* position.
ReusedName == DEFAULT_ISCRIPT_ORDER[ReusedNameSlot]

\* The two table slots of the re-used name hold different addresses.
ReusedAtOtherAddress == LongEntryAddrs[1] # LongEntryAddrs[ReusedNameSlot]

\* The decode ended in the turn of the second slot of the re-used name,
\* on add_many refusing a name the collection holds.
ReusedNameRefused ==
    /\ pc = "read_failed"
    /\ err.kind = "AssertionError"
    /\ ep_i = ReusedNameSlot
    /\ NamedIScripts(Cur, ReusedName) # {}

\* C22: when the two slots of the re-used name hold different addresses
\* the decode does not fail on the name; and once it has succeeded the
\* entrypoint list holds the name at both positions and the one script of
\* that name is the one read at the address of the first slot.
C22_ReusedEntrypointName ==
    ReusedAtOtherAddress =>
        /\ ~ReusedNameRefused
        /\ pc = "decoded" =>
               /\ entrypoints[1] = ReusedName
               /\ entrypoints[ReusedNameSlot] = ReusedName
               /\ \A k \in NamedIScripts(Cur, ReusedName) :
                      scans[coll[k]] = LongEntryAddrs[1]
               /\ Cardinality(NamedIScripts(Cur, ReusedName)) = 1


(***************************************************************************)
(* C23  Terminal action invariant.                                         *)
(***************************************************************************)
\* Code segment c is an action whose type ends a script.
TerminalAt(code, c) == code[c].kind = "action" /\ ACTION_TYPES[code[c].action_id].ends

\* The scan loop of the script is still running.
BeingScanned(sid) == \E i \in DOMAIN stack : stack[i].iscript = sid /\ stack[i].scanning

\* C23: during and after a decode no script holds a terminal action before
\* its last segment; a script whose scan has ended ends in a terminal
\* action, one whose scan is running holds none; and a scan has read the
\* bytes of its script, from the start address on, and none behind them.
C23_TerminalAction ==
    pc \in {"entrypoints", "decoded"} =>
        /\ \A sid \in DOMAIN heap :
               LET code == heap[sid].code
               IN  /\ \A c \in 1..(Len(code) - 1) : ~TerminalAt(code, c)
                   /\ IF BeingScanned(sid)
                      THEN code # <<>> => ~TerminalAt(code, Len(code))
                      ELSE code # <<>> /\ TerminalAt(code, Len(code))
        /\ \A i \in DOMAIN stack :
               stack[i].pos = get_rom_offset_for(Bank, stack[i].bank_addr)
                                  + IScriptSize(heap[stack[i].iscript])

\* A decode has ended on a script that ends in a jump, in an image that
\* holds the byte of an action other than "end" behind that jump.
C23_Witness ==
    /\ pc = "decoded"
    /\ \E k \in DOMAIN coll :
           LET code == heap[coll[k]].code
               behind == get_rom_offset_for(Bank, scans[coll[k]]) + IScriptSize(heap[coll[k]])
           IN  /\ Len(code) >= 2
               /\ code[Len(code)].action_id = 23
               /\ behind \in DOMAIN file.body
               /\ file.body[behind] \in ActionIds \ {0}


(***************************************************************************)
(* C24  Live-link invariant.                                               *)
(***************************************************************************)
\* Parameter value v, of the type its action declares for it, is a link to
\* an entity the graph holds.
LiveLink(h, type, v) ==
    CASE type = "SCRIPT_JUMP_ADDR" ->
             /\ v.tag = "ref"
             /\ v.n \in DOMAIN h
             /\ v.l # 0 => (v.l \in DOMAIN h[v.n].code /\ h[v.n].code[v.l].kind = "label")
      [] type = "SHOP_ADDR" -> v.tag = "shop" /\ HasShop(shops, v.s)
      [] type = "MESSAGE" -> v.tag = "msg" /\ HasMessageId(messages, v.s)
      [] OTHER -> v.tag = "int"

LiveLinks(h) ==
    \A sid \in DOMAIN h : \A c \in DOMAIN h[sid].code :
        h[sid].code[c].kind = "action" =>
            \A j \in DOMAIN h[sid].code[c].params :
                LiveLink(h, ACTION_TYPES[h[sid].code[c].action_id].params[j].type,
                         h[sid].code[c].params[j])

\* C24: after a successful decode and after a successful deserialize every
\* jump parameter holds a reference to a script or label of the graph,
\* every shop parameter a reference to a shop of the graph and every
\* message parameter a message of the graph.
C24_LiveLinks == pc \in {"decoded", "loaded"} => LiveLinks(heap)

\* A parameter that refers to a script behind its own in the collection.
RefersForward(k) ==
    \E c \in DOMAIN heap[coll[k]].code : \E j \in DOMAIN heap[coll[k]].code[c].params :
        LET v == heap[coll[k]].code[c].params[j]
        IN  v.tag = "ref" /\ \E m \in DOMAIN coll : m > k /\ coll[m] = v.n

\* A payload was loaded that holds a jump to a script defined behind it, a
\* shop parameter and a message parameter.
C24_Witness ==
    /\ pc = "loaded"
    /\ \E k \in DOMAIN coll : RefersForward(k)
    /\ \E sid \in DOMAIN heap : \E c \in DOMAIN heap[sid].code :
           \E j \in DOMAIN heap[sid].code[c].params :
               heap[sid].code[c].params[j].tag \in {"shop", "msg"}


(***************************************************************************)
(* C25  Live message index.                                                *)
(***************************************************************************)
\* The message the show-message action of the first script refers to.
ShownMessageId == heap[1].code[1].params[1].s

\* The operand byte written for the show-message action.
MessageOperand == lay.bytes[2]

\* C25: the operand byte written for a message parameter is the position
\* the referenced message has in the message collection at that time,
\* which is the position its bytes take in the message table.
C25_LiveMessageIndex ==
    pc = "encoded" =>
        /\ MessageOperand \in DOMAIN messages
        /\ messages[MessageOperand].message_id = ShownMessageId


(***************************************************************************)
(* C26  Action arity.                                                      *)
(***************************************************************************)
\* Every action of the graph holds as many parameters as its type declares.
DeclaredArity(h) ==
    \A sid \in DOMAIN h : \A c \in DOMAIN h[sid].code :
        h[sid].code[c].kind = "action" =>
            Len(h[sid].code[c].params) = Len(ACTION_TYPES[h[sid].code[c].action_id].params)

\* The bytes the encoder writes for an action alone.
EncodedAction(action) ==
    encode_iscript_action(Cur, iscripts_offset, action, NoLayout)

\* C26: in every graph a decode or a deserialize has built each action
\* holds as many parameters as its type declares, and the encoder writes
\* one byte plus the declared widths for it.
C26_ActionArity ==
    pc \in {"decoded", "loaded"} =>
        /\ DeclaredArity(heap)
        /\ \A sid \in DOMAIN heap : \A c \in DOMAIN heap[sid].code :
               (heap[sid].code[c].kind = "action"
                    /\ EncodedAction(heap[sid].code[c]).err = NoErr) =>
                   Len(EncodedAction(heap[sid].code[c]).bytes) =
                       ActionSize(ACTION_TYPES[heap[sid].code[c].action_id])


(***************************************************************************)
(* C27  Decode determinism.                                                *)
(***************************************************************************)
\* A parameter value with a reference to a script restated by the script's
\* position in the collection.
ByCollIndex(g, v) == IF v.tag = "ref" THEN [v EXCEPT !.n = CollIndex(g, v.n)] ELSE v

\* The scripts of a graph in collection order, free of heap positions.
CollectionOf(g) ==
    [k \in DOMAIN g.coll |->
        [g.heap[g.coll[k]] EXCEPT !.code =
            [c \in DOMAIN @ |->
                [@[c] EXCEPT !.params = [j \in DOMAIN @ |-> ByCollIndex(g, @[j])]]]]]

\* The second read of the image has returned.
ReadTwice == pc = "decoded" /\ edit = "read_again"

\* C27: two reads of one image return the same scripts in the same order
\* with the same reference targets, the same entrypoint list, messages and
\* shops, and so the same bytes when patched.
C27_DecodeDeterminism ==
    ReadTwice =>
        /\ CollectionOf(Cur) = CollectionOf(orig)
        /\ entrypoints = orig.entrypoints
        /\ messages = orig.messages
        /\ SortShops(shops) = SortShops(orig.shops)
        /\ patch(Cur, file) = patch(orig, file)


(***************************************************************************)
(* C28  Patched message table decodes back.                                *)
(***************************************************************************)
\* The strings of a message list, in order.
Strings(ms) == [i \in DOMAIN ms |-> ms[i].string]

\* decode_messages on the patched file, from messages_offset.
DecodedBack == decode_messages(out.body, messages_offset)

\* C28: decode_messages on the file a patch has written returns the
\* messages that were encoded: as many, with the same strings, in the same
\* order, whether the encoded table is shorter or longer than the
\* original's.
C28_MessagesDecodeBack ==
    pc = "patched" =>
        /\ DecodedBack.status = "ok"
        /\ Strings(DecodedBack.messages) = Strings(messages)


(***************************************************************************)
(* C29  Caller-configured offsets are honoured by patch.                   *)
(***************************************************************************)
\* C29: a patch run with a message table offset, an entrypoint table
\* offset and an entrypoint count given by the caller writes the message
\* table and the entrypoint table where the caller said, the scripts/shops
\* region from the table's offset + 2 * the count, and the table and the
\* region share no byte.
C29_ConfiguredOffsets ==
    pc = "cli_patched" =>
        /\ rom.messages_offset = options.messages_offset
        /\ rom.iscript_addrs_offset = options.script_addrs_offset
        /\ rom.max_iscript_addrs = options.num_scripts
        /\ rom.iscripts_offset = options.script_addrs_offset + 2 * options.num_scripts
        /\ TableAt(rom) \cap RegionAt(rom) = {}
        /\ DOMAIN buf = MessagesAt(rom) \cup TableAt(rom) \cup RegionAt(rom)
        /\ buf[options.messages_offset] = 65


(***************************************************************************)
(* C30  Patched operands fit 16 bits and decode back.                      *)
(***************************************************************************)
\* The scripts/shops region, of the length the ROM information is
\* configured with and of the default length.
Region == iscripts_offset..(iscripts_offset + max_iscripts_len - 1)

DefaultRegion == iscripts_offset..(iscripts_offset + DefaultMaxIScriptsLen - 1)

\* Seeking with the bank of the entrypoint table and the value of the two
\* bytes, the first one the less significant, lands on offset o.
LandsOn(lo, hi, o) == get_rom_offset_for(Bank, build_addr(hi, lo)) = o

\* The two bytes the patched file holds at a recorded position land on the
\* offset recorded for the name, which lies in the region.
RefLandsOn(refs, offsets, a) ==
    /\ offsets[refs[a]] \in Region
    /\ LandsOn(out.body[a], out.body[a + 1], offsets[refs[a]])

=============================================================================
